---- MODULE Spec2Model ----
(***************************************************************************)
(* Search API and users API of the reservation platform.                   *)
(*                                                                         *)
(*   - the RabbitMQ consumer that turns property change messages into      *)
(*     Solr index mutations (consumers.RabbitMQConsumer),                  *)
(*   - the search service: cached read path and validated write path       *)
(*     (services.searchService),                                           *)
(*   - the two-tier cache (repositories.cacheRepository) and the Solr      *)
(*     repository (repositories.solrRepository).                           *)
(*                                                                         *)
(* Spec       : the consumer loop, message by message, untimed.            *)
(* SpecTimed  : the same with a clock, the 30s context deadline and the    *)
(*              30s HTTP client timeout.                                   *)
(* SpecSearch : the search service called directly (Search and the three   *)
(*              write operations) over the cache tiers and the engine.     *)
(* SpecCache  : the cache repository's Get, Set and Delete.                *)
(* SpecHTTP   : the /search route, from request to response.               *)
(* SpecPages  : the pagination arithmetic of the search response.          *)
(* SpecSync   : the consumer with the catalog publishing change events.    *)
(* SpecShutdown : the consumer with main's shutdown sequence.              *)
(* SpecEscape : engine queries built from user text.                       *)
(* SpecUsers  : the users service over the users table                     *)
(*              (services.userService, repositories.userRepository).       *)
(* SpecAdmin  : requests to the /admin route group behind its middleware.  *)
(* SpecRace   : two consumer instances on the one queue.                   *)
(* SpecTiers  : the cache repository's tier accesses under concurrent      *)
(*              request tasks and a clock in minutes.                      *)
(* SpecKeys   : the cache key and the select request of pairs of searches. *)
(* SpecLive   : the consumer over an unbounded run, with fairness.         *)
(* SpecSignup : two concurrent CreateUser calls.                           *)
(***************************************************************************)
EXTENDS Integers, Sequences, FiniteSets, TLC

\* ------------------------------------------------------------------------
\* Bounds of the model
\* ------------------------------------------------------------------------
MaxQueue == 2
MaxDeliveries == 3
TickStep == 10
MaxStartDelay == 10

\* ------------------------------------------------------------------------
\* Program constants
\* ------------------------------------------------------------------------
PrefetchCount == 1
ProcessingTimeout == 30
HTTPClientTimeout == 30
DefaultPage == 1
DefaultPageSize == 10
MaxPriceSentinel == 999999

\* ------------------------------------------------------------------------
\* Domain values
\* ------------------------------------------------------------------------
NoDoc == [none |-> TRUE]
NoDelivery == [tag |-> 0]
NoErr == ""

\* domain.Property, the fields the search subsystem reads.  Prices are in
\* thousandths of the currency unit.
Listing(id, title, city, country, price, bedrooms, bathrooms, guests) ==
    [id |-> id, title |-> title, city |-> city, country |-> country,
     price_per_night |-> price, bedrooms |-> bedrooms,
     bathrooms |-> bathrooms, max_guests |-> guests]

LoftV1 == Listing("p1", "Loft", "Rome", "Italy", 80000, 2, 1, 4)
LoftV2 == Listing("p1", "Loft", "Rome", "Italy", 95000, 2, 1, 4)
ZeroProperty == Listing("", "", "", "", 0, 0, 0, 0)

ValidListings == {LoftV1, LoftV2}
InvalidListings ==
    { ZeroProperty,
      [LoftV1 EXCEPT !.title = ""],
      [LoftV1 EXCEPT !.city = ""],
      [LoftV1 EXCEPT !.country = ""],
      [LoftV1 EXCEPT !.price_per_night = -1000],
      [LoftV1 EXCEPT !.bedrooms = -1],
      [LoftV1 EXCEPT !.bathrooms = -1],
      [LoftV1 EXCEPT !.max_guests = -1] }
Listings == ValidListings \cup InvalidListings
PropertyIDs == {"p1"}

\* What the canonical store holds for an identifier: a listing body, or
\* nothing (the read endpoint then answers non-200).
Absent == [absent |-> TRUE]
CanonicalStates == {Absent, LoftV1, LoftV2,
                    [LoftV1 EXCEPT !.title = ""],
                    [LoftV1 EXCEPT !.price_per_night = -1000]}

\* ------------------------------------------------------------------------
\* Messages
\* ------------------------------------------------------------------------
\* A message body: either bytes that are no JSON object for PropertyMessage,
\* or a JSON object with the two fields (a missing field is "").
BadJSON == [wellFormed |-> FALSE, action |-> "", property_id |-> ""]
Body(a, id) == [wellFormed |-> TRUE, action |-> a, property_id |-> id]
Bodies == {BadJSON, Body("create", ""), Body("archive", "p1"),
           Body("create", "p1"), Body("update", "p1"), Body("delete", "p1")}

\* json.Unmarshal(msg.Body, &propertyMsg)
Unmarshal(body) ==
    IF body.wellFormed
    THEN [ok |-> TRUE, Action |-> body.action, PropertyID |-> body.property_id]
    ELSE [ok |-> FALSE, Action |-> "", PropertyID |-> ""]

Ack == "ack"
NackDrop == "nack_no_requeue"
NackRequeue == "nack_requeue"
Dispositions == {Ack, NackDrop, NackRequeue}

VARIABLES
    queue,        \* broker: messages ready for delivery, head first
    msgs,         \* the deliveries channel returned by channel.Consume
    unacked,      \* broker: deliveries handed out and not yet settled
    nextTag,      \* broker: next delivery tag of the channel
    pc,           \* position of the consumer goroutine
    cur,          \* the delivery processMessage is working on
    pmsg,         \* the parsed PropertyMessage
    prop,         \* the property fetched by the handler
    err,          \* the handler's error
    trace,        \* outbound calls made for the current delivery
    last,         \* the last delivery processMessage returned from
    now,          \* clock, seconds since the current delivery was received
    ctxDeadline,  \* deadline of the context created by processMessage
    callStart,    \* when the current outbound call sequence started
    proc,         \* the process: main's position, HTTP server, broker handles
    canonical,    \* canonical store: identifier -> listing or Absent
    published,    \* change events the catalog service has published, in order
    solrDocs,     \* engine: documents added or deleted, commit pending
    solrIndex,    \* engine: committed documents, visible to queries
    localCache,   \* in-process cache tier: key -> entry
    memcached,    \* distributed cache tier: key -> entry
    users,        \* users table: id -> row
    nextID,       \* users table: next auto-increment id
    lastCall,     \* what the last user service call was given and returned
    tasks,        \* concurrent tasks: each one's position and locals
    lastSearch    \* what the last service call returned and which calls it made

consumerVars == <<queue, msgs, unacked, nextTag, pc, cur, pmsg, prop, err,
                  trace, last, now, ctxDeadline, callStart>>
procVars == <<proc>>
storeVars == <<canonical, published>>
engineVars == <<solrDocs, solrIndex>>
cacheVars == <<localCache, memcached>>
userVars == <<users, nextID, lastCall>>
taskVars == <<tasks>>
vars == <<consumerVars, procVars, storeVars, engineVars, cacheVars, userVars,
          taskVars, lastSearch>>

\* ------------------------------------------------------------------------
\* Search service, write path (services.searchService) and the Solr
\* repository mutations (repositories.solrRepository)
\* ------------------------------------------------------------------------
\* Mutant of validateProperty: without the check of max_guests.
validateProperty_NoGuestsCheck(property) ==
    IF property.id = "" THEN "property ID cannot be empty"
    ELSE IF property.title = "" THEN "property title cannot be empty"
    ELSE IF property.city = "" THEN "property city cannot be empty"
    ELSE IF property.country = "" THEN "property country cannot be empty"
    ELSE IF property.price_per_night < 0 THEN "property price_per_night cannot be negative"
    ELSE IF property.bedrooms < 0 THEN "property bedrooms cannot be negative"
    ELSE IF property.bathrooms < 0 THEN "property bathrooms cannot be negative"
    ELSE NoErr

\* validateProperty: the first failing check decides the error.
validateProperty(property) ==
    IF property.id = "" THEN "property ID cannot be empty"
    ELSE IF property.title = "" THEN "property title cannot be empty"
    ELSE IF property.city = "" THEN "property city cannot be empty"
    ELSE IF property.country = "" THEN "property country cannot be empty"
    ELSE IF property.price_per_night < 0 THEN "property price_per_night cannot be negative"
    ELSE IF property.bedrooms < 0 THEN "property bedrooms cannot be negative"
    ELSE IF property.bathrooms < 0 THEN "property bathrooms cannot be negative"
    ELSE IF property.max_guests < 0 THEN "property max_guests cannot be negative"
    ELSE NoErr

\* Outcomes of one HTTP exchange with the engine.  Every outcome but "ok" is
\* an error return and leaves the engine as it was.
UpdateOutcomes == {"ok", "transport_error", "http_status", "bad_body", "solr_status"}
CommitOutcomes == {"ok", "transport_error", "http_status"}

\* The outcomes of a mutation: of the update request and, when that one
\* succeeded, of the commit request (no commit is sent otherwise).
EngineOutcomes ==
    {<<"ok", c>> : c \in CommitOutcomes}
    \cup {<<u, "ok">> : u \in UpdateOutcomes \ {"ok"}}

Call(op, ok) == [op |-> op, ok |-> ok]

\* Result of an engine operation: the error, the engine afterwards, and the
\* HTTP calls made.
EngineResult(e, docs, index, calls) ==
    [err |-> e, docs |-> docs, index |-> index, calls |-> calls]

\* Mutant of commit: the answer of the commit request is not looked at.
commit_IgnoreAnswer(docs, index, outcome) ==
    IF outcome = "ok"
    THEN EngineResult(NoErr, docs, docs, <<Call("solr.commit", TRUE)>>)
    ELSE EngineResult(NoErr, docs, index, <<Call("solr.commit", FALSE)>>)

\* solrRepository.commit: makes the pending documents visible.
commit(docs, index, outcome) ==
    IF outcome = "ok"
    THEN EngineResult(NoErr, docs, docs, <<Call("solr.commit", TRUE)>>)
    ELSE EngineResult("solr commit failed", docs, index, <<Call("solr.commit", FALSE)>>)

\* Mutant of SolrIndexProperty: the document sent as an atomic update that
\* adds the price to the stored one instead of replacing the document.
SolrIndexProperty_AddToStored(property, post, commitOutcome) ==
    IF post # "ok"
    THEN EngineResult("solr update failed", solrDocs, solrIndex,
                      <<Call("solr.add", FALSE)>>)
    ELSE LET old == solrDocs[property.id]
             doc == IF old = NoDoc THEN property
                    ELSE [property EXCEPT !.price_per_night = @ + old.price_per_night]
             docs1 == (property.id :> doc) @@ solrDocs
             c == commit(docs1, solrIndex, commitOutcome)
         IN  EngineResult(c.err, c.docs, c.index, <<Call("solr.add", TRUE)>> \o c.calls)

\* solrRepository.IndexProperty: POST the full document, then commit.  The
\* engine keeps one document per id: an added document replaces the one
\* stored under the same id.
SolrIndexProperty(property, post, commitOutcome) ==
    IF post # "ok"
    THEN EngineResult("solr update failed", solrDocs, solrIndex,
                      <<Call("solr.add", FALSE)>>)
    ELSE LET docs1 == (property.id :> property) @@ solrDocs
             c == commit(docs1, solrIndex, commitOutcome)
         IN  EngineResult(c.err, c.docs, c.index, <<Call("solr.add", TRUE)>> \o c.calls)

\* solrRepository.UpdateProperty: the same request as IndexProperty.
SolrUpdateProperty(property, post, commitOutcome) ==
    SolrIndexProperty(property, post, commitOutcome)

\* solrRepository.DeleteProperty: POST delete-by-id, then commit.
SolrDeleteProperty(propertyID, post, commitOutcome) ==
    IF post # "ok"
    THEN EngineResult("solr delete failed", solrDocs, solrIndex,
                      <<Call("solr.delete", FALSE)>>)
    ELSE LET docs1 == (propertyID :> NoDoc) @@ solrDocs
             c == commit(docs1, solrIndex, commitOutcome)
         IN  EngineResult(c.err, c.docs, c.index, <<Call("solr.delete", TRUE)>> \o c.calls)

\* searchService.invalidateCache: logs a note and removes nothing.
invalidateCache(cache) == cache

\* searchService.IndexProperty
IndexProperty(property, post, commitOutcome) ==
    IF validateProperty(property) # NoErr
    THEN EngineResult("invalid property: " \o validateProperty(property),
                      solrDocs, solrIndex, <<>>)
    ELSE LET r == SolrIndexProperty(property, post, commitOutcome)
         IN  IF r.err # NoErr
             THEN [r EXCEPT !.err = "error indexing property in Solr: " \o @]
             ELSE r

\* searchService.UpdateProperty
UpdateProperty(property, post, commitOutcome) ==
    IF validateProperty(property) # NoErr
    THEN EngineResult("invalid property: " \o validateProperty(property),
                      solrDocs, solrIndex, <<>>)
    ELSE LET r == SolrUpdateProperty(property, post, commitOutcome)
         IN  IF r.err # NoErr
             THEN [r EXCEPT !.err = "error updating property in Solr: " \o @]
             ELSE r

\* searchService.DeleteProperty
DeleteProperty(propertyID, post, commitOutcome) ==
    IF propertyID = ""
    THEN EngineResult("property ID cannot be empty", solrDocs, solrIndex, <<>>)
    ELSE LET r == SolrDeleteProperty(propertyID, post, commitOutcome)
         IN  IF r.err # NoErr
             THEN [r EXCEPT !.err = "error deleting property from Solr: " \o @]
             ELSE r

\* searchService.FetchPropertyFromAPI: GET <base>/properties/<id>.
\* outcome is what the exchange with the canonical store did: "ok" is a 200
\* with a body that parses, answered from what the store holds.
FetchOutcomes == {"ok", "transport_error", "http_status", "bad_body"}
FetchPropertyFromAPI(propertyID, outcome) ==
    IF propertyID = ""
    THEN [err |-> "property ID cannot be empty", property |-> ZeroProperty, calls |-> <<>>]
    ELSE IF outcome = "ok" /\ canonical[propertyID] # Absent
    THEN [err |-> NoErr, property |-> canonical[propertyID],
          calls |-> <<Call("properties.get", TRUE)>>]
    ELSE [err |-> IF outcome \in {"ok", "http_status"}
                  THEN "properties API returned status"
                  ELSE "error fetching property",
          property |-> ZeroProperty,
          calls |-> <<Call("properties.get", FALSE)>>]

\* ------------------------------------------------------------------------
\* Formatting (fmt.Sprintf verbs used by the service and the repository)
\* ------------------------------------------------------------------------
Digits2(n) == IF n < 10 THEN "0" \o ToString(n) ELSE ToString(n)
Digits3(n) == IF n < 10 THEN "00" \o ToString(n)
              ELSE IF n < 100 THEN "0" \o ToString(n) ELSE ToString(n)

\* %.2f of a price in thousandths: rounded to hundredths.
FormatFloat2(p) ==
    LET a == IF p < 0 THEN 0 - p ELSE p
        cents == (a + 5) \div 10
    IN  (IF p < 0 THEN "-" ELSE "") \o ToString(cents \div 100) \o "."
        \o Digits2(cents % 100)

\* %f of a price in thousandths: six decimals.
FormatFloat6(p) ==
    LET a == IF p < 0 THEN 0 - p ELSE p
    IN  (IF p < 0 THEN "-" ELSE "") \o ToString(a \div 1000) \o "."
        \o Digits3(a % 1000) \o "000"

\* ------------------------------------------------------------------------
\* Search requests (dto.SearchRequest) and their validation
\* ------------------------------------------------------------------------
\* The request with every parameter omitted (Go zero values).
ZeroRequest ==
    [Query |-> "", City |-> "", Country |-> "", MinPrice |-> 0, MaxPrice |-> 0,
     Bedrooms |-> 0, Bathrooms |-> 0, MinGuests |-> 0, Page |-> 0,
     PageSize |-> 0, SortBy |-> "", SortOrder |-> ""]

\* searchService.validateSearchRequest, first half: default-filling, done
\* on the caller's copy before any check.
ServiceDefaults(request) ==
    [request EXCEPT
       !.Page = IF @ < 1 THEN DefaultPage ELSE @,
       !.PageSize = IF @ < 1 THEN DefaultPageSize ELSE @,
       !.SortBy = IF @ = "" THEN "price_per_night" ELSE @,
       !.SortOrder = IF @ = "" THEN "asc" ELSE @]

\* searchService.validateSearchRequest, second half: the checks, on the
\* defaulted request.
ServiceChecks(r) ==
    IF r.SortOrder # "asc" /\ r.SortOrder # "desc"
    THEN "invalid sort_order: must be 'asc' or 'desc'"
    ELSE IF r.MinPrice < 0 THEN "min_price cannot be negative"
    ELSE IF r.MaxPrice < 0 THEN "max_price cannot be negative"
    ELSE IF r.MinPrice > 0 /\ r.MaxPrice > 0 /\ r.MinPrice > r.MaxPrice
    THEN "min_price cannot be greater than max_price"
    ELSE IF r.Bedrooms < 0 THEN "bedrooms cannot be negative"
    ELSE IF r.Bathrooms < 0 THEN "bathrooms cannot be negative"
    ELSE IF r.MinGuests < 0 THEN "min_guests cannot be negative"
    ELSE NoErr

\* searchService.validateSearchRequest: the defaulted request and the error.
validateSearchRequest(request) ==
    LET r == ServiceDefaults(request)
    IN  [request |-> r, err |-> ServiceChecks(r)]

\* searchService.generateCacheKey.  md5 is taken as collision-free: the key
\* is the joined string itself.
generateCacheKey(request) ==
    "search:" \o
    "query:" \o request.Query \o "|" \o
    "city:" \o request.City \o "|" \o
    "country:" \o request.Country \o "|" \o
    "min_price:" \o FormatFloat2(request.MinPrice) \o "|" \o
    "max_price:" \o FormatFloat2(request.MaxPrice) \o "|" \o
    "bedrooms:" \o ToString(request.Bedrooms) \o "|" \o
    "bathrooms:" \o ToString(request.Bathrooms) \o "|" \o
    "min_guests:" \o ToString(request.MinGuests) \o "|" \o
    "page:" \o ToString(request.Page) \o "|" \o
    "page_size:" \o ToString(request.PageSize) \o "|" \o
    "sort_by:" \o request.SortBy \o "|" \o
    "sort_order:" \o request.SortOrder

\* ------------------------------------------------------------------------
\* Solr repository, query side
\* ------------------------------------------------------------------------
\* strings.ReplaceAll(s, old, new) for a one-character old.
RECURSIVE ReplaceAll(_, _, _)
ReplaceAll(s, old, new) ==
    IF Len(s) = 0 THEN ""
    ELSE (IF SubSeq(s, 1, 1) = old THEN new ELSE SubSeq(s, 1, 1))
         \o ReplaceAll(SubSeq(s, 2, Len(s)), old, new)

\* The characters escapeSolrQuery replaces, in its order.
SolrSpecials == <<"\\", "+", "-", "&", "|", "!", "(", ")", "{", "}", "[", "]",
                  "^", "\"", "~", "*", "?", ":">>

RECURSIVE EscapeFrom(_, _)
EscapeFrom(s, i) ==
    IF i > Len(SolrSpecials) THEN s
    ELSE EscapeFrom(ReplaceAll(s, SolrSpecials[i], "\\" \o SolrSpecials[i]), i + 1)

\* escapeSolrQuery: one ReplaceAll after the other.
escapeSolrQuery(query) == EscapeFrom(query, 1)

\* solrRepository.Search, the parameters of the select request.
SolrQ(request) ==
    IF request.Query = "" THEN "*:*"
    ELSE "(title:*" \o escapeSolrQuery(request.Query) \o "* OR city:*"
         \o escapeSolrQuery(request.Query) \o "* OR country:*"
         \o escapeSolrQuery(request.Query) \o "*)"

SolrFilters(request) ==
    (IF request.MinPrice > 0 \/ request.MaxPrice > 0
     THEN <<"price_per_night:[" \o FormatFloat6(request.MinPrice) \o " TO "
            \o FormatFloat6(IF request.MaxPrice = 0 THEN MaxPriceSentinel * 1000
                            ELSE request.MaxPrice) \o "]">>
     ELSE <<>>)
    \o (IF request.Bedrooms > 0
        THEN <<"bedrooms:" \o ToString(request.Bedrooms)>> ELSE <<>>)
    \o (IF request.Bathrooms > 0
        THEN <<"bathrooms:" \o ToString(request.Bathrooms)>> ELSE <<>>)
    \o (IF request.MinGuests > 0
        THEN <<"max_guests:[" \o ToString(request.MinGuests) \o " TO *]">> ELSE <<>>)
    \o (IF request.City # ""
        THEN <<"city:\"" \o escapeSolrQuery(request.City) \o "\"">> ELSE <<>>)
    \o (IF request.Country # ""
        THEN <<"country:\"" \o escapeSolrQuery(request.Country) \o "\"">> ELSE <<>>)

SolrParams(request) ==
    LET page == IF request.Page < 1 THEN DefaultPage ELSE request.Page
        pageSize == IF request.PageSize < 1 THEN DefaultPageSize ELSE request.PageSize
        sortBy == IF request.SortBy = "" THEN "price_per_night" ELSE request.SortBy
        sortOrder == IF request.SortOrder = "" THEN "asc" ELSE request.SortOrder
    IN  [q |-> SolrQ(request), fq |-> SolrFilters(request),
         start |-> (page - 1) * pageSize, rows |-> pageSize,
         sort |-> sortBy \o " " \o sortOrder, wt |-> "json"]

\* s contains t
Contains(s, t) ==
    \E i \in 1..(Len(s) - Len(t) + 1) : SubSeq(s, i, i + Len(t) - 1) = t

\* The engine evaluating the select request on a committed document: the
\* free text against title, city, country; every filter as a conjunct.
EngineMatches(doc, request) ==
    /\ request.Query # "" =>
         \/ Contains(doc.title, request.Query)
         \/ Contains(doc.city, request.Query)
         \/ Contains(doc.country, request.Query)
    /\ (request.MinPrice > 0 \/ request.MaxPrice > 0) =>
         /\ doc.price_per_night >= request.MinPrice
         /\ doc.price_per_night <= (IF request.MaxPrice = 0
                                    THEN MaxPriceSentinel * 1000
                                    ELSE request.MaxPrice)
    /\ request.Bedrooms > 0 => doc.bedrooms = request.Bedrooms
    /\ request.Bathrooms > 0 => doc.bathrooms = request.Bathrooms
    /\ request.MinGuests > 0 => doc.max_guests >= request.MinGuests
    /\ request.City # "" => doc.city = request.City
    /\ request.Country # "" => doc.country = request.Country

\* The committed documents matching the request, as a sequence (the model
\* holds one document per identifier; ids ordered as PropertyIDs lists them).
RECURSIVE SeqOf(_)
SeqOf(S) == IF S = {} THEN <<>>
            ELSE LET x == CHOOSE y \in S : TRUE IN <<x>> \o SeqOf(S \ {x})

EngineSelect(request) ==
    LET hits == {id \in PropertyIDs :
                   solrIndex[id] # NoDoc /\ EngineMatches(solrIndex[id], request)}
        all == SeqOf({solrIndex[id] : id \in hits})
        params == SolrParams(request)
    IN  [numFound |-> Len(all),
         docs |-> SubSeq(all, params.start + 1,
                         IF params.start + params.rows < Len(all)
                         THEN params.start + params.rows ELSE Len(all))]

\* solrRepository.Search: one select request; any failure is an error.
SelectOutcomes == {"ok", "transport_error", "http_status", "bad_body"}

\* Mutant of SolrSearch: a failed select request is sent once more.
SolrSearch_RetryOnce(request, outcome) ==
    IF outcome = "ok"
    THEN [err |-> NoErr, properties |-> EngineSelect(request).docs,
          total |-> EngineSelect(request).numFound,
          calls |-> <<Call("solr.select", TRUE)>>]
    ELSE [err |-> NoErr, properties |-> EngineSelect(request).docs,
          total |-> EngineSelect(request).numFound,
          calls |-> <<Call("solr.select", FALSE), Call("solr.select", TRUE)>>]

SolrSearch(request, outcome) ==
    IF outcome = "ok"
    THEN LET e == EngineSelect(request)
         IN  [err |-> NoErr, properties |-> e.docs, total |-> e.numFound,
              calls |-> <<Call("solr.select", TRUE)>>]
    ELSE [err |-> "solr search failed", properties |-> <<>>, total |-> 0,
          calls |-> <<Call("solr.select", FALSE)>>]

\* ------------------------------------------------------------------------
\* The two-tier cache (repositories.cacheRepository)
\* ------------------------------------------------------------------------
\* A tier is a function from the keys it holds (unexpired) to cacheData.
\* An entry carries, beside Properties and Total, the TTL it was stored with
\* (minutes) and a history field: whether an engine mutation succeeded since
\* the entry was stored.
CacheData(properties, total) ==
    [Properties |-> properties, Total |-> total, ttl |-> 0, preMutation |-> FALSE]

\* The TTLs cacheRepository passes to the tiers, in minutes.
LocalTTL == 5
MemcachedTTL == 15

Put(tier, key, data, ttl) == (key :> [data EXCEPT !.ttl = ttl]) @@ tier
Remove(tier, key) == [k \in DOMAIN tier \ {key} |-> tier[k]]

MemcachedGetOutcomes == {"reply", "error", "undecodable"}
\* The set is stored and answered; it fails and is not stored; it is stored
\* but the answer is lost.
MemcachedSetOutcomes == {"ok", "error", "error_applied"}

\* Mutant of CacheGet: Memcached is asked before the local tier is looked
\* at.
CacheGet_RemoteFirst(key, mc) ==
    IF key \in DOMAIN localCache
    THEN [found |-> TRUE, data |-> localCache[key], local |-> localCache,
          calls |-> <<Call("memcached.get", FALSE), Call("local.get", TRUE)>>]
    ELSE IF mc = "reply" /\ key \in DOMAIN memcached
    THEN [found |-> TRUE, data |-> memcached[key],
          local |-> Put(localCache, key, memcached[key], LocalTTL),
          calls |-> <<Call("memcached.get", TRUE), Call("local.get", FALSE),
                      Call("local.set", TRUE)>>]
    ELSE [found |-> FALSE, data |-> CacheData(<<>>, 0), local |-> localCache,
          calls |-> <<Call("memcached.get", FALSE), Call("local.get", FALSE)>>]

\* Mutant of CacheGet: a Memcached hit is returned without being stored in
\* the local tier.
CacheGet_NoRepopulate(key, mc) ==
    IF key \in DOMAIN localCache
    THEN [found |-> TRUE, data |-> localCache[key], local |-> localCache,
          calls |-> <<Call("local.get", TRUE)>>]
    ELSE IF mc = "reply" /\ key \in DOMAIN memcached
    THEN [found |-> TRUE, data |-> memcached[key], local |-> localCache,
          calls |-> <<Call("local.get", FALSE), Call("memcached.get", TRUE)>>]
    ELSE [found |-> FALSE, data |-> CacheData(<<>>, 0), local |-> localCache,
          calls |-> <<Call("local.get", FALSE), Call("memcached.get", FALSE)>>]

\* cacheRepository.Get: local tier first, then Memcached; a Memcached hit
\* is stored in the local tier.
CacheGet(key, mc) ==
    IF key \in DOMAIN localCache
    THEN [found |-> TRUE, data |-> localCache[key], local |-> localCache,
          calls |-> <<Call("local.get", TRUE)>>]
    ELSE IF mc = "reply" /\ key \in DOMAIN memcached
    THEN [found |-> TRUE, data |-> memcached[key],
          local |-> Put(localCache, key, memcached[key], LocalTTL),
          calls |-> <<Call("local.get", FALSE), Call("memcached.get", TRUE),
                      Call("local.set", TRUE)>>]
    ELSE [found |-> FALSE, data |-> CacheData(<<>>, 0), local |-> localCache,
          calls |-> <<Call("local.get", FALSE), Call("memcached.get", FALSE)>>]

\* Mutant of CacheSet: the tiers are written with the caller's ttl.
CacheSet_CallerTTL(local, key, properties, total, ttl, mc) ==
    [local |-> Put(local, key, CacheData(properties, total), ttl),
     remote |-> IF mc \in {"ok", "error_applied"}
                THEN Put(memcached, key, CacheData(properties, total), ttl)
                ELSE memcached,
     calls |-> <<Call("local.set", TRUE), Call("memcached.set", mc = "ok")>>]

\* cacheRepository.Set: local tier, then Memcached; a Memcached failure is
\* logged.  The ttl argument is not read.
CacheSet(local, key, properties, total, ttl, mc) ==
    [local |-> Put(local, key, CacheData(properties, total), LocalTTL),
     remote |-> IF mc \in {"ok", "error_applied"}
                THEN Put(memcached, key, CacheData(properties, total), MemcachedTTL)
                ELSE memcached,
     calls |-> <<Call("local.set", TRUE), Call("memcached.set", mc = "ok")>>]

\* The answers of Memcached to a delete: deleted, ErrCacheMiss, or another
\* error.
MemcachedDeleteOutcomes == {"ok", "miss", "error"}

\* Mutant of CacheDelete: only the local tier is cleared.
CacheDelete_LocalOnly(key, mc, applied) ==
    [local |-> Remove(localCache, key), remote |-> memcached,
     calls |-> <<Call("local.delete", TRUE)>>]

\* cacheRepository.Delete: local tier, then Memcached; ErrCacheMiss and any
\* other error are logged.  When the exchange failed, the delete may or may
\* not have been applied by the server (applied).
CacheDelete(key, mc, applied) ==
    [local |-> Remove(localCache, key),
     remote |-> IF mc = "ok" \/ (mc = "error" /\ applied)
                THEN Remove(memcached, key) ELSE memcached,
     calls |-> <<Call("local.delete", TRUE), Call("memcached.delete", mc = "ok")>>]

\* History bookkeeping: a write operation that returned success turns every
\* entry then cached into one stored before a mutation.
MarkPreMutation(tier) ==
    [k \in DOMAIN tier |-> [tier[k] EXCEPT !.preMutation = TRUE]]

\* The cache tier after a write operation of the service that returned e:
\* invalidateCache runs on success only.
TierAfterWrite(tier, e) ==
    IF e = NoErr THEN MarkPreMutation(invalidateCache(tier)) ELSE tier

\* ------------------------------------------------------------------------
\* The HTTP controller (controllers.SearchController)
\* ------------------------------------------------------------------------
\* strconv.Atoi on short literals: an optional sign and decimal digits.
DigitChars == <<"0", "1", "2", "3", "4", "5", "6", "7", "8", "9">>
IsDigit(c) == \E i \in 1..10 : DigitChars[i] = c
DigitValue(c) == (CHOOSE i \in 1..10 : DigitChars[i] = c) - 1
AllDigits(s) == Len(s) > 0 /\ \A i \in 1..Len(s) : IsDigit(SubSeq(s, i, i))

RECURSIVE DigitsValue(_)
DigitsValue(s) ==
    IF Len(s) = 0 THEN 0
    ELSE DigitsValue(SubSeq(s, 1, Len(s) - 1)) * 10 + DigitValue(SubSeq(s, Len(s), Len(s)))

Atoi(s) ==
    LET signed == Len(s) > 0 /\ SubSeq(s, 1, 1) \in {"-", "+"}
        digits == IF signed THEN SubSeq(s, 2, Len(s)) ELSE s
    IN  IF ~AllDigits(digits) THEN [ok |-> FALSE, value |-> 0]
        ELSE [ok |-> TRUE,
              value |-> IF signed /\ SubSeq(s, 1, 1) = "-"
                        THEN 0 - DigitsValue(digits) ELSE DigitsValue(digits)]

\* strconv.ParseFloat on the literals the model sends: a literal Atoi
\* accepts is that number (in thousandths); one it refuses is an error.
ParseFloat(s) ==
    [ok |-> Atoi(s).ok, value |-> Atoi(s).value * 1000]

\* The query string of a request: every parameter absent ("").
NoParams ==
    [query |-> "", city |-> "", country |-> "", sort_by |-> "", sort_order |-> "",
     min_price |-> "", max_price |-> "", bedrooms |-> "", bathrooms |-> "",
     min_guests |-> "", page |-> "", page_size |-> ""]

\* A numeric parameter: absent, it leaves the zero value.
IntParam(str) == IF str = "" THEN [ok |-> TRUE, value |-> 0] ELSE Atoi(str)
FloatParam(str) == IF str = "" THEN [ok |-> TRUE, value |-> 0] ELSE ParseFloat(str)

\* parseSearchRequest: the request, or the first conversion error.
parseSearchRequest(params) ==
    LET nums == <<FloatParam(params.min_price), FloatParam(params.max_price),
                  IntParam(params.bedrooms), IntParam(params.bathrooms),
                  IntParam(params.min_guests), IntParam(params.page),
                  IntParam(params.page_size)>>
    IN  IF \E i \in 1..7 : ~nums[i].ok
        THEN [err |-> "invalid syntax", request |-> ZeroRequest]
        ELSE [err |-> NoErr,
              request |-> [Query |-> params.query, City |-> params.city,
                           Country |-> params.country,
                           MinPrice |-> nums[1].value, MaxPrice |-> nums[2].value,
                           Bedrooms |-> nums[3].value, Bathrooms |-> nums[4].value,
                           MinGuests |-> nums[5].value, Page |-> nums[6].value,
                           PageSize |-> nums[7].value,
                           SortBy |-> params.sort_by, SortOrder |-> params.sort_order]]

\* applyDefaults of the controller.
applyDefaults(request) ==
    [request EXCEPT
       !.Page = IF @ < 1 THEN 1 ELSE @,
       !.PageSize = IF @ < 1 THEN 10 ELSE @,
       !.SortBy = IF @ = "" THEN "price_per_night" ELSE @,
       !.SortOrder = IF @ = "" THEN "asc" ELSE @]

\* The largest page size the controller lets through.
MaxPageSize == 100

\* Mutant of ControllerValidate: without the check of the sort order.
ControllerValidate_AnySortOrder(r) ==
    IF r.Page < 1 THEN "Page must be >= 1"
    ELSE IF r.PageSize < 1 THEN "PageSize must be > 0"
    ELSE IF r.PageSize > MaxPageSize THEN "PageSize must be <= 100"
    ELSE IF r.MinPrice < 0 THEN "MinPrice cannot be negative"
    ELSE IF r.MaxPrice < 0 THEN "MaxPrice cannot be negative"
    ELSE IF r.MinPrice > 0 /\ r.MaxPrice > 0 /\ r.MinPrice > r.MaxPrice
    THEN "MinPrice cannot be greater than MaxPrice"
    ELSE IF r.Bedrooms < 0 THEN "Bedrooms cannot be negative"
    ELSE IF r.Bathrooms < 0 THEN "Bathrooms cannot be negative"
    ELSE IF r.MinGuests < 0 THEN "MinGuests cannot be negative"
    ELSE NoErr

\* Mutant of ControllerValidate: without the check of the price range.
ControllerValidate_NoRangeCheck(r) ==
    IF r.Page < 1 THEN "Page must be >= 1"
    ELSE IF r.PageSize < 1 THEN "PageSize must be > 0"
    ELSE IF r.PageSize > MaxPageSize THEN "PageSize must be <= 100"
    ELSE IF r.SortOrder # "" /\ r.SortOrder # "asc" /\ r.SortOrder # "desc"
    THEN "SortOrder must be 'asc' or 'desc'"
    ELSE IF r.MinPrice < 0 THEN "MinPrice cannot be negative"
    ELSE IF r.MaxPrice < 0 THEN "MaxPrice cannot be negative"
    ELSE IF r.Bedrooms < 0 THEN "Bedrooms cannot be negative"
    ELSE IF r.Bathrooms < 0 THEN "Bathrooms cannot be negative"
    ELSE IF r.MinGuests < 0 THEN "MinGuests cannot be negative"
    ELSE NoErr

\* validateSearchRequest of the controller, on the request applyDefaults
\* has filled.
ControllerValidate(r) ==
    IF r.Page < 1 THEN "Page must be >= 1"
    ELSE IF r.PageSize < 1 THEN "PageSize must be > 0"
    ELSE IF r.PageSize > MaxPageSize THEN "PageSize must be <= 100"
    ELSE IF r.SortOrder # "" /\ r.SortOrder # "asc" /\ r.SortOrder # "desc"
    THEN "SortOrder must be 'asc' or 'desc'"
    ELSE IF r.MinPrice < 0 THEN "MinPrice cannot be negative"
    ELSE IF r.MaxPrice < 0 THEN "MaxPrice cannot be negative"
    ELSE IF r.MinPrice > 0 /\ r.MaxPrice > 0 /\ r.MinPrice > r.MaxPrice
    THEN "MinPrice cannot be greater than MaxPrice"
    ELSE IF r.Bedrooms < 0 THEN "Bedrooms cannot be negative"
    ELSE IF r.Bathrooms < 0 THEN "Bathrooms cannot be negative"
    ELSE IF r.MinGuests < 0 THEN "MinGuests cannot be negative"
    ELSE NoErr

\* SearchController.Search up to the service call: the status it answers
\* with before calling the service (0: the service is called), the message
\* of its error response, and the request it would pass on.
ControllerAdmit(method, params) ==
    LET p == parseSearchRequest(params)
        r == applyDefaults(p.request)
    IN  IF method # "GET"
        THEN [status |-> 405, error |-> "Method not allowed", request |-> ZeroRequest]
        ELSE IF p.err # NoErr
        THEN [status |-> 400, error |-> p.err, request |-> ZeroRequest]
        ELSE IF ControllerValidate(r) # NoErr
        THEN [status |-> 400, error |-> ControllerValidate(r), request |-> r]
        ELSE [status |-> 0, error |-> NoErr, request |-> r]

\* writeErrorResponse: the JSON body of an error answer.
ErrorResponse(message, statusCode) == [error |-> message, code |-> statusCode]
NoBody == [empty |-> TRUE]

\* Mutant of corsMiddleware: the preflight request handed to the handler
\* like any other.
corsMiddleware_NoPreflight(method, params) ==
    [handler |-> TRUE] @@ ControllerAdmit(method, params)

\* corsMiddleware around SearchController.Search, up to the service call:
\* a preflight request is answered with 204 and the handler is not called.
corsMiddleware(method, params) ==
    IF method = "OPTIONS"
    THEN [handler |-> FALSE, status |-> 204, error |-> NoErr, request |-> ZeroRequest]
    ELSE [handler |-> TRUE] @@ ControllerAdmit(method, params)

\* The requests sent to GET /search.
Queries ==
    { NoParams,
      [NoParams EXCEPT !.page = "0"],
      [NoParams EXCEPT !.page = "-1"],
      [NoParams EXCEPT !.page = "abc"],
      [NoParams EXCEPT !.bedrooms = "2.5"],
      [NoParams EXCEPT !.min_price = "ten"],
      [NoParams EXCEPT !.page_size = "0"],
      [NoParams EXCEPT !.page_size = "101"],
      [NoParams EXCEPT !.sort_order = "sideways"],
      [NoParams EXCEPT !.min_price = "10", !.max_price = "5"],
      [NoParams EXCEPT !.min_price = "5", !.max_price = "10"],
      [NoParams EXCEPT !.min_price = "-1"],
      [NoParams EXCEPT !.max_price = "-1"],
      [NoParams EXCEPT !.bedrooms = "-1"],
      [NoParams EXCEPT !.bathrooms = "-1"],
      [NoParams EXCEPT !.min_guests = "-1"] }

\* A request with no parameters is also sent with other methods.
HTTPRequests ==
    ({"GET"} \X Queries) \cup {<<"POST", NoParams>>, <<"OPTIONS", NoParams>>}

\* ------------------------------------------------------------------------
\* Search service, read path (services.searchService.Search)
\* ------------------------------------------------------------------------
\* The requests the model issues, and the cache key of each (generateCacheKey
\* of the defaulted request), computed once.
Requests ==
    { ZeroRequest,
      [ZeroRequest EXCEPT !.Page = 1, !.PageSize = 10,
                          !.SortBy = "price_per_night", !.SortOrder = "asc"],
      [ZeroRequest EXCEPT !.Page = -1],
      [ZeroRequest EXCEPT !.PageSize = 101],
      [ZeroRequest EXCEPT !.SortOrder = "sideways"],
      [ZeroRequest EXCEPT !.MinPrice = -1000],
      [ZeroRequest EXCEPT !.MaxPrice = -1000],
      [ZeroRequest EXCEPT !.MinPrice = 10000, !.MaxPrice = 5000],
      [ZeroRequest EXCEPT !.Bedrooms = -1],
      [ZeroRequest EXCEPT !.Bathrooms = -1],
      [ZeroRequest EXCEPT !.MinGuests = -1] }

\* Mutant of KeyTable: the key is generated from the request as received,
\* before the defaults are filled in.
KeyTable_BeforeDefaults == [r \in Requests |-> generateCacheKey(r)]

KeyTable == [r \in Requests |-> generateCacheKey(validateSearchRequest(r).request)]
KeyOf(request) ==
    IF request \in Requests THEN KeyTable[request]
    ELSE generateCacheKey(validateSearchRequest(request).request)

\* Mutant of TotalPages: the quotient plus one.
TotalPages_PlusOne(total, pageSize) == total \div pageSize + 1

\* "Redondeo hacia arriba"
TotalPages(total, pageSize) == (total + pageSize - 1) \div pageSize

SearchResponse(properties, total, request) ==
    [Results |-> properties, TotalResults |-> total, Page |-> request.Page,
     PageSize |-> request.PageSize,
     TotalPages |-> TotalPages(total, request.PageSize)]

NoResponse == [nil |-> TRUE]
SearchTTL == 10

\* Mutant of OnCacheHit: the engine is queried before the cache result is
\* looked at.
OnCacheHit_QueryFirst(g, q, request) ==
    [response |-> SearchResponse(g.data.Properties, g.data.Total, request),
     trace |-> g.calls \o q.calls]

\* searchService.Search, the branch taken when the cache lookup g found the
\* key: the response is assembled from the cached data, and the calls made
\* are those of the lookup (q, the engine query, is not evaluated).
OnCacheHit(g, q, request) ==
    [response |-> SearchResponse(g.data.Properties, g.data.Total, request),
     trace |-> g.calls]

\* Mutant of SearchService: a Memcached failure on get or on set is
\* returned to the caller as an error.
SearchService_FailOnCacheError(request, mcGet, sel, mcSet) ==
    LET v == validateSearchRequest(request)
        key == KeyOf(request)
        g == CacheGet(key, mcGet)
        q == SolrSearch(v.request, sel)
        w == CacheSet(g.local, key, q.properties, q.total, SearchTTL, mcSet)
    IN  IF v.err # NoErr
        THEN [err |-> "invalid request", response |-> NoResponse,
              fromCache |-> FALSE, preMutation |-> FALSE, key |-> "",
              trace |-> <<>>, local |-> localCache, remote |-> memcached]
        ELSE IF g.found
        THEN [err |-> NoErr,
              response |-> OnCacheHit(g, q, v.request).response,
              fromCache |-> TRUE, preMutation |-> g.data.preMutation, key |-> key,
              trace |-> OnCacheHit(g, q, v.request).trace,
              local |-> g.local, remote |-> memcached]
        ELSE IF key \notin DOMAIN localCache /\ mcGet # "reply"
        THEN [err |-> "cache unavailable", response |-> NoResponse,
              fromCache |-> FALSE, preMutation |-> FALSE, key |-> key,
              trace |-> g.calls, local |-> g.local, remote |-> memcached]
        ELSE IF q.err # NoErr
        THEN [err |-> "error searching in Solr", response |-> NoResponse,
              fromCache |-> FALSE, preMutation |-> FALSE, key |-> key,
              trace |-> g.calls \o q.calls, local |-> g.local, remote |-> memcached]
        ELSE [err |-> IF mcSet = "ok" THEN NoErr ELSE "cache unavailable",
              response |-> IF mcSet = "ok"
                           THEN SearchResponse(q.properties, q.total, v.request)
                           ELSE NoResponse,
              fromCache |-> FALSE, preMutation |-> FALSE, key |-> key,
              trace |-> g.calls \o q.calls \o w.calls,
              local |-> w.local, remote |-> w.remote]

\* searchService.Search as a whole: what it returns, the calls it made and
\* the cache tiers it leaves.
SearchService(request, mcGet, sel, mcSet) ==
    LET v == validateSearchRequest(request)
        key == KeyOf(request)
        g == CacheGet(key, mcGet)
        q == SolrSearch(v.request, sel)
        w == CacheSet(g.local, key, q.properties, q.total, SearchTTL, mcSet)
    IN  IF v.err # NoErr
        THEN [err |-> "invalid request", response |-> NoResponse,
              fromCache |-> FALSE, preMutation |-> FALSE, key |-> "",
              trace |-> <<>>, local |-> localCache, remote |-> memcached]
        ELSE IF g.found
        THEN [err |-> NoErr,
              response |-> OnCacheHit(g, q, v.request).response,
              fromCache |-> TRUE, preMutation |-> g.data.preMutation, key |-> key,
              trace |-> OnCacheHit(g, q, v.request).trace,
              local |-> g.local, remote |-> memcached]
        ELSE IF q.err # NoErr
        THEN [err |-> "error searching in Solr", response |-> NoResponse,
              fromCache |-> FALSE, preMutation |-> FALSE, key |-> key,
              trace |-> g.calls \o q.calls, local |-> g.local, remote |-> memcached]
        ELSE [err |-> NoErr,
              response |-> SearchResponse(q.properties, q.total, v.request),
              fromCache |-> FALSE, preMutation |-> FALSE, key |-> key,
              trace |-> g.calls \o q.calls \o w.calls,
              local |-> w.local, remote |-> w.remote]

\* ------------------------------------------------------------------------
\* The consumer (consumers.RabbitMQConsumer)
\* ------------------------------------------------------------------------
HandledActions == {"create", "update", "delete"}

\* Mutant of CanDeliver: Start without the Qos call, so the broker pushes
\* deliveries without waiting for the previous one to be settled.
CanDeliver_NoQos == TRUE

\* channel.Qos(1, 0, false): the broker hands out a delivery only while
\* fewer than the prefetch count are unsettled.
CanDeliver == Cardinality(unacked) < PrefetchCount

\* The goroutine Start launched runs for as long as the process does.
Alive == proc.main # "exited"

\* The loop of Start, `for msg := range msgs { c.processMessage(msg) }`:
\* the next delivery is received once processMessage has returned.
LoopReady == Alive /\ pc = "idle"

\* processMessage, the dispositions sent on the paths that reject the
\* message before a handler runs (unparseable body, empty PropertyID,
\* unknown action).
RejectDispositions == <<NackDrop>>

\* Mutant of ResultDispositions: the error branch without its return, so
\* the ack below it is sent too.
ResultDispositions_FallThrough(e) ==
    IF e # NoErr THEN <<NackRequeue, Ack>> ELSE <<Ack>>

\* Mutant of ResultDispositions: the message acknowledged whatever the
\* handler returned.
ResultDispositions_AckAlways(e) == <<Ack>>

\* processMessage, "Manejar resultado": the dispositions sent once the
\* handler returned e.
ResultDispositions(e) ==
    IF e # NoErr THEN <<NackRequeue>> ELSE <<Ack>>

\* Mutant of DispatchOf: without the check of an empty PropertyID.
DispatchOf_NoIdCheck(body) ==
    LET m == Unmarshal(body)
    IN  IF ~m.ok THEN "reject"
        ELSE IF m.Action = "create" THEN "handleCreate"
        ELSE IF m.Action = "update" THEN "handleUpdate"
        ELSE IF m.Action = "delete" THEN "handleDelete"
        ELSE "reject"

\* processMessage up to the switch: "reject" when the message is refused
\* without a handler, else the handler dispatched to.
DispatchOf(body) ==
    LET m == Unmarshal(body)
    IN  IF ~m.ok THEN "reject"
        ELSE IF m.PropertyID = "" THEN "reject"
        ELSE IF m.Action = "create" THEN "handleCreate"
        ELSE IF m.Action = "update" THEN "handleUpdate"
        ELSE IF m.Action = "delete" THEN "handleDelete"
        ELSE "reject"

\* The dispositions that reach the broker: msg.Ack and msg.Nack fail on a
\* channel that is closed.
Sent(disps) == IF proc.channel = "open" THEN disps ELSE <<>>

\* The broker settling the current delivery with the first disposition it
\* receives for the tag, and processMessage returning.
Return(disps, handler) ==
    /\ unacked' = unacked \ {cur.tag}
    /\ queue' = IF Sent(disps) # <<>> /\ disps[1] = NackRequeue
                THEN <<cur.body>> \o queue ELSE queue
    /\ last' = [tag |-> cur.tag, body |-> cur.body, disps |-> Sent(disps),
                handler |-> handler, err |-> err, trace |-> trace,
                at |-> now, deadline |-> ctxDeadline]
    /\ pc' = "idle"
    /\ cur' = NoDelivery
    /\ pmsg' = Unmarshal(BadJSON)
    /\ prop' = ZeroProperty
    /\ err' = NoErr
    /\ trace' = <<>>
    /\ now' = 0
    /\ ctxDeadline' = 0
    /\ callStart' = 0

\* Broker: deliver the head of the queue to the consumer's channel.
Deliver ==
    /\ proc.channel = "open"
    /\ queue # <<>>
    /\ CanDeliver
    /\ nextTag <= MaxDeliveries
    /\ msgs' = Append(msgs, [tag |-> nextTag, body |-> Head(queue)])
    /\ queue' = Tail(queue)
    /\ unacked' = unacked \cup {nextTag}
    /\ nextTag' = nextTag + 1
    /\ UNCHANGED <<pc, cur, pmsg, prop, err, trace, last, now, ctxDeadline, callStart>>
    /\ UNCHANGED <<procVars, storeVars, taskVars, userVars, engineVars, cacheVars, lastSearch>>

\* Start's goroutine takes the next delivery and calls processMessage.
Receive ==
    /\ LoopReady
    /\ msgs # <<>>
    /\ cur' = Head(msgs)
    /\ msgs' = Tail(msgs)
    /\ pc' = "received"
    /\ now' = 0
    /\ UNCHANGED <<queue, unacked, nextTag, pmsg, prop, err, trace, last,
                   ctxDeadline, callStart>>
    /\ UNCHANGED <<procVars, storeVars, taskVars, userVars, engineVars, cacheVars, lastSearch>>

\* processMessage: parse, validate, create the context, switch on Action.
Dispatch ==
    /\ Alive
    /\ pc = "received"
    /\ LET h == DispatchOf(cur.body)
       IN  IF h = "reject"
           THEN /\ Return(RejectDispositions, "reject")
                /\ UNCHANGED <<msgs, nextTag>>
           ELSE /\ pmsg' = Unmarshal(cur.body)
                /\ ctxDeadline' = now + ProcessingTimeout
                /\ pc' = h
                /\ UNCHANGED <<queue, msgs, unacked, nextTag, cur, prop, err,
                               trace, last, now, callStart>>
    /\ UNCHANGED <<procVars, storeVars, taskVars, userVars, engineVars, cacheVars, lastSearch>>

\* Mutant of StartHandler: create and update go to the engine without
\* fetching the canonical listing.
StartHandler_SkipFetch ==
    /\ Alive
    /\ pc \in {"handleCreate", "handleUpdate", "handleDelete"}
    /\ callStart' = now
    /\ pc' = "mutate"
    /\ UNCHANGED <<queue, msgs, unacked, nextTag, cur, pmsg, prop, err, trace,
                   last, now, ctxDeadline>>
    /\ UNCHANGED <<procVars, storeVars, taskVars, userVars, engineVars, cacheVars, lastSearch>>

\* Mutant of StartHandler: delete fetches the canonical listing as create
\* and update do.
StartHandler_FetchAlways ==
    /\ Alive
    /\ pc \in {"handleCreate", "handleUpdate", "handleDelete"}
    /\ callStart' = now
    /\ pc' = "fetch"
    /\ UNCHANGED <<queue, msgs, unacked, nextTag, cur, pmsg, prop, err, trace,
                   last, now, ctxDeadline>>
    /\ UNCHANGED <<procVars, storeVars, taskVars, userVars, engineVars, cacheVars, lastSearch>>

\* handleCreate / handleUpdate / handleDelete up to their first service call.
StartHandler ==
    /\ Alive
    /\ pc \in {"handleCreate", "handleUpdate", "handleDelete"}
    /\ callStart' = now
    /\ pc' = IF pc = "handleDelete" THEN "mutate" ELSE "fetch"
    /\ UNCHANGED <<queue, msgs, unacked, nextTag, cur, pmsg, prop, err, trace,
                   last, now, ctxDeadline>>
    /\ UNCHANGED <<procVars, storeVars, taskVars, userVars, engineVars, cacheVars, lastSearch>>

\* The HTTP client of the search service gives the request up after its own
\* timeout, counted from the start of the request; the request carries no
\* context.
FetchAnswers(outcome) ==
    IF now >= callStart + HTTPClientTimeout THEN outcome = "transport_error" ELSE TRUE

\* handleCreate / handleUpdate, step 1: c.service.FetchPropertyFromAPI.
Fetch ==
    /\ Alive
    /\ pc = "fetch"
    /\ \E outcome \in FetchOutcomes :
         /\ FetchAnswers(outcome)
         /\ \E r \in {FetchPropertyFromAPI(pmsg.PropertyID, outcome)} :
                /\ trace' = trace \o r.calls
                /\ IF r.err # NoErr
                   THEN /\ err' = "failed to fetch property from API: " \o r.err
                        /\ pc' = "result"
                        /\ UNCHANGED <<prop, callStart>>
                   ELSE /\ prop' = r.property
                        /\ pc' = "mutate"
                        /\ callStart' = now
                        /\ UNCHANGED err
    /\ UNCHANGED <<queue, msgs, unacked, nextTag, cur, pmsg, last, now, ctxDeadline>>
    /\ UNCHANGED <<procVars, storeVars, taskVars, userVars, engineVars, cacheVars, lastSearch>>

\* Mutant of EngineAnswers: the engine requests built without the context.
EngineAnswers_NoContext(post, commitOutcome) == TRUE

\* Requests to the engine carry the context: one started after the
\* deadline fails before it is sent, one in flight at the deadline fails.
\* (The Solr client's own 30s timeout starts later than the context and so
\* never fires first.)
EngineAnswers(post, commitOutcome) ==
    IF callStart >= ctxDeadline THEN post = "transport_error"
    ELSE IF now >= ctxDeadline
         THEN \/ post = "transport_error"
              \/ post = "ok" /\ commitOutcome = "transport_error"
    ELSE TRUE

\* The service call of the handler, by action.
HandlerMutation(post, commitOutcome) ==
    IF pmsg.Action = "create" THEN IndexProperty(prop, post, commitOutcome)
    ELSE IF pmsg.Action = "update" THEN UpdateProperty(prop, post, commitOutcome)
    ELSE DeleteProperty(pmsg.PropertyID, post, commitOutcome)

HandlerError ==
    IF pmsg.Action = "create" THEN "failed to index property"
    ELSE IF pmsg.Action = "update" THEN "failed to update property"
    ELSE "failed to delete property"

\* handleCreate / handleUpdate step 2, handleDelete: the engine mutation
\* through the service.
Mutate ==
    /\ Alive
    /\ pc = "mutate"
    /\ \E o \in EngineOutcomes :
         /\ EngineAnswers(o[1], o[2])
         /\ \E r \in {HandlerMutation(o[1], o[2])} :
                /\ solrDocs' = r.docs
                /\ solrIndex' = r.index
                /\ trace' = trace \o r.calls
                /\ err' = IF r.err # NoErr THEN HandlerError \o ": " \o r.err ELSE NoErr
                /\ localCache' = TierAfterWrite(localCache, r.err)
                /\ memcached' = TierAfterWrite(memcached, r.err)
    /\ pc' = "result"
    /\ UNCHANGED <<queue, msgs, unacked, nextTag, cur, pmsg, prop, last, now,
                   ctxDeadline, callStart>>
    /\ UNCHANGED <<procVars, storeVars, taskVars, userVars, lastSearch>>

\* processMessage, "Manejar resultado": nack with requeue or ack, return.
Finish ==
    /\ Alive
    /\ pc = "result"
    /\ Return(ResultDispositions(err), DispatchOf(cur.body))
    /\ UNCHANGED <<msgs, nextTag>>
    /\ UNCHANGED <<procVars, storeVars, taskVars, userVars, engineVars, cacheVars, lastSearch>>

\* Time passes while the consumer waits: before the handler's first request
\* goes out, during the fetch (until the client timeout), during the engine
\* requests (until the context deadline).
Tick ==
    /\ Alive
    /\ pc \in {"handleCreate", "handleUpdate", "handleDelete", "fetch", "mutate"}
    /\ pc \in {"handleCreate", "handleUpdate", "handleDelete"} => now < MaxStartDelay
    /\ pc = "fetch" => now < callStart + HTTPClientTimeout
    /\ pc = "mutate" => now < ctxDeadline
    /\ now' = now + TickStep
    /\ UNCHANGED <<queue, msgs, unacked, nextTag, pc, cur, pmsg, prop, err,
                   trace, last, ctxDeadline, callStart>>
    /\ UNCHANGED <<procVars, storeVars, taskVars, userVars, engineVars, cacheVars, lastSearch>>

\* ------------------------------------------------------------------------
\* Initial states and specifications
\* ------------------------------------------------------------------------
Queues == UNION {[1..n -> Bodies] : n \in 0..MaxQueue}
NoLast == [tag |-> 0, body |-> BadJSON, disps |-> <<>>, handler |-> "reject",
           err |-> NoErr, trace |-> <<>>, at |-> 0, deadline |-> 0]
NoSearch == [op |-> "none", n |-> 0]

\* main once the consumer is started and the HTTP server listens.
Running ==
    [main |-> "serving", http |-> "accepting", channel |-> "open",
     connection |-> "open", closeCalls |-> <<>>, closeErrs |-> <<>>,
     closeErr |-> NoErr]

\* The users table before anyone registered.
NoCall == [op |-> "none"]
NoUsers ==
    /\ users = <<>>
    /\ nextID = 1
    /\ lastCall = NoCall

\* No concurrent task in flight.
NoTasks == <<>>

ConsumerIdle ==
    /\ proc = Running
    /\ msgs = <<>>
    /\ unacked = {}
    /\ nextTag = 1
    /\ pc = "idle"
    /\ cur = NoDelivery
    /\ pmsg = Unmarshal(BadJSON)
    /\ prop = ZeroProperty
    /\ err = NoErr
    /\ trace = <<>>
    /\ last = NoLast
    /\ now = 0
    /\ ctxDeadline = 0
    /\ callStart = 0

EmptyEngine == [id \in PropertyIDs |-> NoDoc]
EmptyCache == <<>>

Init ==
    /\ queue \in Queues
    /\ ConsumerIdle
    /\ canonical \in [PropertyIDs -> CanonicalStates]
    /\ published = <<>>
    /\ tasks = NoTasks
    /\ NoUsers
    /\ solrDocs = EmptyEngine
    /\ solrIndex = EmptyEngine
    /\ localCache = EmptyCache
    /\ memcached = EmptyCache
    /\ lastSearch = NoSearch

Next ==
    \/ Deliver
    \/ Receive
    \/ Dispatch
    \/ StartHandler
    \/ Fetch
    \/ Mutate
    \/ Finish

Spec == Init /\ [][Next]_vars

MaxTimedQueue == 1

InitTimed ==
    /\ Init
    /\ Len(queue) <= MaxTimedQueue

NextTimed == Next \/ Tick

SpecTimed == InitTimed /\ [][NextTimed]_vars

\* ------------------------------------------------------------------------
\* The consumer beside the catalog service that changes listings and
\* publishes their change events
\* ------------------------------------------------------------------------
MaxPublished == 3

\* The catalog service changes a listing and then publishes the event of
\* the change to the queue.
Publish(id, state, action) ==
    /\ Len(published) < MaxPublished
    /\ canonical' = [canonical EXCEPT ![id] = state]
    /\ published' = Append(published, Body(action, id))
    /\ queue' = Append(queue, Body(action, id))
    /\ UNCHANGED <<msgs, unacked, nextTag, pc, cur, pmsg, prop, err, trace,
                   last, now, ctxDeadline, callStart>>
    /\ UNCHANGED <<procVars, engineVars, cacheVars, userVars, taskVars,
                   lastSearch>>

UpstreamCreate ==
    \E id \in PropertyIDs, l \in ValidListings :
        /\ canonical[id] = Absent
        /\ l.id = id
        /\ Publish(id, l, "create")

UpstreamUpdate ==
    \E id \in PropertyIDs, l \in ValidListings :
        /\ canonical[id] \notin {Absent, l}
        /\ l.id = id
        /\ Publish(id, l, "update")

UpstreamDelete ==
    \E id \in PropertyIDs :
        /\ canonical[id] # Absent
        /\ Publish(id, Absent, "delete")

InitSync ==
    /\ queue = <<>>
    /\ ConsumerIdle
    /\ canonical = [id \in PropertyIDs |-> Absent]
    /\ published = <<>>
    /\ tasks = NoTasks
    /\ NoUsers
    /\ solrDocs = EmptyEngine
    /\ solrIndex = EmptyEngine
    /\ localCache = EmptyCache
    /\ memcached = EmptyCache
    /\ lastSearch = NoSearch

NextSync ==
    \/ Next
    \/ UpstreamCreate
    \/ UpstreamUpdate
    \/ UpstreamDelete

SpecSync == InitSync /\ [][NextSync]_vars

\* ------------------------------------------------------------------------
\* The consumer beside main's shutdown sequence
\* ------------------------------------------------------------------------
CloseOutcomes == {"ok", "error"}

\* fmt.Errorf("... %v", errs) of a slice of errors.
FormatErrs(errs) ==
    IF Len(errs) = 1 THEN "[" \o errs[1] \o "]"
    ELSE "[" \o errs[1] \o " " \o errs[2] \o "]"

\* Mutant of ConsumerClose: Close returning at the first failure.
ConsumerClose_StopAtFirstError(chOutcome, connOutcome) ==
    IF chOutcome # "ok"
    THEN [calls |-> <<Call("channel.Close", FALSE)>>,
          errs |-> <<"error closing channel">>,
          err |-> "errors closing RabbitMQ consumer: [error closing channel]"]
    ELSE [calls |-> <<Call("channel.Close", TRUE),
                      Call("connection.Close", connOutcome = "ok")>>,
          errs |-> IF connOutcome # "ok" THEN <<"error closing connection">> ELSE <<>>,
          err |-> IF connOutcome # "ok"
                  THEN "errors closing RabbitMQ consumer: [error closing connection]"
                  ELSE NoErr]

\* RabbitMQConsumer.Close: the calls it makes, the errors it collects and
\* the error it returns.  (Both handles are set by NewRabbitMQConsumer, so
\* neither nil check skips a call.)
ConsumerClose(chOutcome, connOutcome) ==
    LET errs1 == IF chOutcome # "ok" THEN <<"error closing channel">> ELSE <<>>
        errs2 == IF connOutcome # "ok"
                 THEN Append(errs1, "error closing connection") ELSE errs1
    IN  [calls |-> <<Call("channel.Close", chOutcome = "ok"),
                     Call("connection.Close", connOutcome = "ok")>>,
         errs |-> errs2,
         err |-> IF Len(errs2) > 0
                 THEN "errors closing RabbitMQ consumer: " \o FormatErrs(errs2)
                 ELSE NoErr]

\* The deliveries the broker still waits to have settled, oldest first.
Outstanding ==
    SelectSeq((IF cur = NoDelivery THEN <<>> ELSE <<cur>>) \o msgs,
              LAMBDA d : d.tag \in unacked)

\* The broker when the channel goes: unsettled deliveries return to the
\* queue, and the deliveries channel is closed, with or without the
\* deliveries the goroutine has not yet received.
ChannelGone ==
    /\ queue' = [i \in 1..Len(Outstanding) |-> Outstanding[i].body] \o queue
    /\ unacked' = {}
    /\ msgs' \in {msgs, <<>>}

\* main: a signal arrives on quit.
Signal ==
    /\ proc.main = "serving"
    /\ proc' = [proc EXCEPT !.main = "signalled"]
    /\ UNCHANGED <<consumerVars, storeVars, taskVars, userVars, engineVars, cacheVars, lastSearch>>

\* main: server.Shutdown(ctx).  The listeners are closed first; whether the
\* call then returns nil or the context's error, main goes on.
ServerShutdown ==
    /\ proc.main = "signalled"
    /\ proc' = [proc EXCEPT !.main = "http_down", !.http = "stopped"]
    /\ UNCHANGED <<consumerVars, storeVars, taskVars, userVars, engineVars, cacheVars, lastSearch>>

\* main: consumer.Close().  Closing the connection closes its channel too.
Close ==
    /\ proc.main = "http_down"
    /\ \E chOutcome \in CloseOutcomes, connOutcome \in CloseOutcomes :
       \E r \in {ConsumerClose(chOutcome, connOutcome)} :
          /\ proc' = [proc EXCEPT
                        !.main = "closed",
                        !.channel = IF \E i \in 1..Len(r.calls) : r.calls[i].ok
                                    THEN "closed" ELSE @,
                        !.connection = IF Call("connection.Close", TRUE) \in
                                             {r.calls[i] : i \in 1..Len(r.calls)}
                                       THEN "closed" ELSE @,
                        !.closeCalls = r.calls,
                        !.closeErrs = r.errs,
                        !.closeErr = r.err]
          /\ IF \E i \in 1..Len(r.calls) : r.calls[i].ok
             THEN ChannelGone
             ELSE UNCHANGED <<queue, unacked, msgs>>
    /\ UNCHANGED <<nextTag, pc, cur, pmsg, prop, err, trace, last, now,
                   ctxDeadline, callStart>>
    /\ UNCHANGED <<storeVars, taskVars, userVars, engineVars, cacheVars, lastSearch>>

\* main returns: the process ends with its goroutines, and what Close left
\* open goes with it.
Exit ==
    /\ proc.main = "closed"
    /\ proc' = [proc EXCEPT !.main = "exited", !.channel = "closed",
                            !.connection = "closed"]
    /\ IF proc.channel = "open"
       THEN ChannelGone
       ELSE UNCHANGED <<queue, unacked, msgs>>
    /\ UNCHANGED <<nextTag, pc, cur, pmsg, prop, err, trace, last, now,
                   ctxDeadline, callStart>>
    /\ UNCHANGED <<storeVars, taskVars, userVars, engineVars, cacheVars, lastSearch>>

NextShutdown ==
    \/ Next
    \/ Signal
    \/ ServerShutdown
    \/ Close
    \/ Exit

SpecShutdown == Init /\ [][NextShutdown]_vars

\* ------------------------------------------------------------------------
\* The search service called directly
\* ------------------------------------------------------------------------
MaxCacheKeys == 1

CachedKeys == DOMAIN localCache \cup DOMAIN memcached

\* The outcomes of the exchanges a Search call of this request gets to make
\* in the current state (an exchange that is not made has no outcome).
GetOutcomesFor(request) ==
    IF validateSearchRequest(request).err # NoErr \/ KeyOf(request) \in DOMAIN localCache
    THEN {"reply"} ELSE MemcachedGetOutcomes
QueryOutcomesFor(request, mcGet) ==
    IF \/ validateSearchRequest(request).err # NoErr
       \/ KeyOf(request) \in DOMAIN localCache
       \/ mcGet = "reply" /\ KeyOf(request) \in DOMAIN memcached
    THEN {<<"ok", "ok">>}
    ELSE {<<"ok", mcSet>> : mcSet \in MemcachedSetOutcomes}
         \cup {<<sel, "ok">> : sel \in SelectOutcomes \ {"ok"}}

\* The Memcached failures a call met: those of the exchanges its trace
\* shows it made.
Faults(tr, mcGet, mcSet) ==
    (IF mcGet # "reply" /\ \E i \in 1..Len(tr) : tr[i].op = "memcached.get"
     THEN {"get_" \o mcGet} ELSE {})
    \cup (IF mcSet # "ok" /\ \E i \in 1..Len(tr) : tr[i].op = "memcached.set"
          THEN {"set_error"} ELSE {})

\* What is recorded of a Search call r on the service: what it returned,
\* the calls it made, and what it left in the cache when it returned
\* (whether both tiers are as it found them, whether the in-process tier
\* holds the returned listings and total under the key).
ServiceRecord(request, r, mcGet, mcSet) ==
    [request |-> request, err |-> r.err, response |-> r.response,
     fromCache |-> r.fromCache, preMutation |-> r.preMutation, trace |-> r.trace,
     key |-> r.key, faults |-> Faults(r.trace, mcGet, mcSet),
     cacheUntouched |-> r.local = localCache /\ r.remote = memcached,
     storedLocal |-> /\ r.key \in DOMAIN r.local
                     /\ r.response # NoResponse
                     /\ r.local[r.key].Properties = r.response.Results
                     /\ r.local[r.key].Total = r.response.TotalResults,
     n |-> 0]

\* One Search call on the service with a request of S.
SearchOf(S) ==
    /\ \E request \in S :
       \E mcGet \in GetOutcomesFor(request) :
       \E o \in QueryOutcomesFor(request, mcGet) :
       \E r \in {SearchService(request, mcGet, o[1], o[2])} :
             /\ Cardinality(CachedKeys \cup (IF r.key = "" THEN {} ELSE {r.key}))
                  <= MaxCacheKeys
             /\ localCache' = r.local
             /\ memcached' = r.remote
             /\ lastSearch' = [op |-> "Search"] @@ ServiceRecord(request, r, mcGet, o[2])
    /\ UNCHANGED <<consumerVars, procVars, storeVars, taskVars, userVars, engineVars>>

\* One Search call of a request task.
Search == SearchOf(Requests)

\* The listings the write operations are called with, and the outcomes of
\* the engine exchanges a call gets to make (none when validation fails).
ServiceListings == {LoftV1} \cup InvalidListings
OutcomesFor(valid) == IF valid THEN EngineOutcomes ELSE {<<"ok", "ok">>}

\* A write operation called with arg returned r: its effects, and the record
\* of the call (post, commitOutcome: what the engine exchanges it made did;
\* untouched: engine and cache tiers are as the call found them).
WriteReturned(op, arg, o, r) ==
    /\ solrDocs' = r.docs
    /\ solrIndex' = r.index
    /\ localCache' = TierAfterWrite(localCache, r.err)
    /\ memcached' = TierAfterWrite(memcached, r.err)
    /\ lastSearch' = [op |-> op, arg |-> arg, err |-> r.err, trace |-> r.calls,
                      post |-> IF Len(r.calls) >= 1 THEN o[1] ELSE "none",
                      commitOutcome |-> IF Len(r.calls) >= 2 THEN o[2] ELSE "none",
                      untouched |-> /\ r.docs = solrDocs
                                    /\ r.index = solrIndex
                                    /\ TierAfterWrite(localCache, r.err) = localCache
                                    /\ TierAfterWrite(memcached, r.err) = memcached,
                      n |-> 0]
    /\ UNCHANGED <<consumerVars, procVars, storeVars, taskVars, userVars>>

\* One IndexProperty call on the service.
ServiceIndex ==
    \E property \in ServiceListings :
    \E o \in OutcomesFor(validateProperty(property) = NoErr) :
    \E r \in {IndexProperty(property, o[1], o[2])} :
        WriteReturned("IndexProperty", property, o, r)

\* One UpdateProperty call on the service.
ServiceUpdate ==
    \E property \in ServiceListings :
    \E o \in OutcomesFor(validateProperty(property) = NoErr) :
    \E r \in {UpdateProperty(property, o[1], o[2])} :
        WriteReturned("UpdateProperty", property, o, r)

\* One DeleteProperty call on the service.
ServiceDelete ==
    \E propertyID \in PropertyIDs \cup {""} :
    \E o \in OutcomesFor(propertyID # "") :
    \E r \in {DeleteProperty(propertyID, o[1], o[2])} :
        WriteReturned("DeleteProperty", propertyID, o, r)

\* The local tier drops an entry (its 5 minute TTL ran out, or the LRU
\* bound evicted it).
LocalExpire ==
    /\ \E k \in DOMAIN localCache : localCache' = Remove(localCache, k)
    /\ UNCHANGED <<consumerVars, procVars, storeVars, taskVars, userVars, engineVars, memcached, lastSearch>>

\* Memcached drops an entry (its 15 minute expiration ran out, or it was
\* evicted).
MemcachedExpire ==
    /\ \E k \in DOMAIN memcached : memcached' = Remove(memcached, k)
    /\ UNCHANGED <<consumerVars, procVars, storeVars, taskVars, userVars, engineVars, localCache, lastSearch>>

InitSearch ==
    /\ queue = <<>>
    /\ ConsumerIdle
    /\ canonical = [id \in PropertyIDs |-> Absent]
    /\ published = <<>>
    /\ tasks = NoTasks
    /\ NoUsers
    /\ solrDocs \in {EmptyEngine, [id \in PropertyIDs |-> LoftV1]}
    /\ solrIndex = solrDocs
    /\ localCache = EmptyCache
    /\ memcached = EmptyCache
    /\ lastSearch = NoSearch

NextSearch ==
    \/ Search
    \/ ServiceIndex
    \/ ServiceUpdate
    \/ ServiceDelete
    \/ LocalExpire
    \/ MemcachedExpire

SpecSearch == InitSearch /\ [][NextSearch]_vars

\* ------------------------------------------------------------------------
\* The cache repository called directly
\* ------------------------------------------------------------------------
\* The keys, values and ttl arguments (minutes) of the calls.
RepoKeys == {"search:a", "search:b"}
RepoValues == {CacheData(<<>>, 0), CacheData(<<LoftV1>>, 1)}
RepoTTLs == {1, 10, 20}

\* One Get call on the repository.
RepoGet ==
    /\ \E key \in RepoKeys :
       \E mc \in (IF key \in DOMAIN localCache THEN {"reply"}
                  ELSE MemcachedGetOutcomes) :
       \E r \in {CacheGet(key, mc)} :
          /\ localCache' = r.local
          /\ lastSearch' = [op |-> "Get", key |-> key, found |-> r.found,
                            properties |-> r.data.Properties, total |-> r.data.Total,
                            trace |-> r.calls, faults |-> Faults(r.calls, mc, "ok"),
                            n |-> 1 - lastSearch.n]
    /\ UNCHANGED <<consumerVars, procVars, storeVars, taskVars, userVars, engineVars, memcached>>

\* One Set call on the repository.
RepoSet ==
    /\ \E key \in RepoKeys, value \in RepoValues, ttl \in RepoTTLs :
       \E mc \in MemcachedSetOutcomes :
       \E r \in {CacheSet(localCache, key, value.Properties, value.Total, ttl, mc)} :
          /\ localCache' = r.local
          /\ memcached' = r.remote
          /\ lastSearch' = [op |-> "Set", key |-> key,
                            properties |-> value.Properties, total |-> value.Total,
                            ttl |-> ttl, trace |-> r.calls,
                            faults |-> Faults(r.calls, "reply", mc),
                            n |-> 1 - lastSearch.n]
    /\ UNCHANGED <<consumerVars, procVars, storeVars, taskVars, userVars, engineVars>>

\* One Delete call on the repository.
RepoDelete ==
    /\ \E key \in RepoKeys :
       \E mc \in (IF key \in DOMAIN memcached THEN {"ok", "error"}
                  ELSE {"miss", "error"}) :
       \E applied \in (IF mc = "error" THEN BOOLEAN ELSE {TRUE}) :
       \E r \in {CacheDelete(key, mc, applied)} :
          /\ localCache' = r.local
          /\ memcached' = r.remote
          /\ lastSearch' = [op |-> "Delete", key |-> key, trace |-> r.calls,
                            faults |-> IF mc = "error" THEN {"delete_error"} ELSE {},
                            n |-> 1 - lastSearch.n]
    /\ UNCHANGED <<consumerVars, procVars, storeVars, taskVars, userVars, engineVars>>

NextCache ==
    \/ RepoGet
    \/ RepoSet
    \/ RepoDelete
    \/ LocalExpire
    \/ MemcachedExpire

SpecCache == InitSearch /\ [][NextCache]_vars

\* The record of a request the controller answered without calling the
\* service.
Refused(method, params, a) ==
    [op |-> "ControllerSearch", method |-> method, params |-> params,
     status |-> a.status, reached |-> FALSE, request |-> a.request,
     handler |-> a.handler,
     body |-> IF a.error # NoErr THEN ErrorResponse(a.error, a.status) ELSE NoBody,
     err |-> NoErr, response |-> NoResponse, fromCache |-> FALSE,
     preMutation |-> FALSE, trace |-> <<>>, key |-> "", faults |-> {},
     cacheUntouched |-> TRUE, storedLocal |-> FALSE, n |-> 0]

\* One request to the /search route: corsMiddleware, then
\* SearchController.Search.
ControllerSearch ==
    /\ \E x \in HTTPRequests :
       \E method \in {x[1]}, params \in {x[2]} :
       \E a \in {corsMiddleware(method, params)} :
          IF a.status # 0
          THEN /\ lastSearch' = Refused(method, params, a)
               /\ UNCHANGED cacheVars
          ELSE \E mcGet \in GetOutcomesFor(a.request) :
               \E o \in QueryOutcomesFor(a.request, mcGet) :
               \E r \in {SearchService(a.request, mcGet, o[1], o[2])} :
                  /\ Cardinality(CachedKeys \cup (IF r.key = "" THEN {} ELSE {r.key}))
                       <= MaxCacheKeys
                  /\ localCache' = r.local
                  /\ memcached' = r.remote
                  /\ lastSearch' =
                        [op |-> "ControllerSearch", method |-> method,
                         params |-> params,
                         status |-> IF r.err # NoErr THEN 500 ELSE 200,
                         handler |-> TRUE,
                         body |-> IF r.err # NoErr
                                  THEN ErrorResponse("Internal server error", 500)
                                  ELSE r.response,
                         reached |-> TRUE]
                        @@ ServiceRecord(a.request, r, mcGet, o[2])
    /\ UNCHANGED <<consumerVars, procVars, storeVars, taskVars, userVars, engineVars>>

\* The requests the service is called with directly beside the controller:
\* the ones its checks refuse, and a price range it accepts.
BoundaryRequests ==
    {r \in Requests : validateSearchRequest(r).err # NoErr}
    \cup {[ZeroRequest EXCEPT !.MinPrice = 5000, !.MaxPrice = 10000]}

DirectSearch == SearchOf(BoundaryRequests)

NextHTTP ==
    \/ ControllerSearch
    \/ DirectSearch
    \/ LocalExpire
    \/ MemcachedExpire

SpecHTTP == InitSearch /\ [][NextHTTP]_vars

\* ------------------------------------------------------------------------
\* The response assembly of Search over a range of totals and page sizes
\* ------------------------------------------------------------------------
MaxTotal == 12
MaxPageSizeTried == 8

\* The response Search assembles for a defaulted request of the given page
\* size when the cache or the engine reports the given total.
Paginate ==
    /\ \E total \in 0..MaxTotal, pageSize \in 1..MaxPageSizeTried, page \in 1..2 :
       \E request \in {[ZeroRequest EXCEPT !.Page = page, !.PageSize = pageSize,
                                           !.SortBy = "price_per_night",
                                           !.SortOrder = "asc"]} :
          lastSearch' = [op |-> "SearchResponse", request |-> request, err |-> NoErr,
                         response |-> SearchResponse(<<>>, total, request), n |-> 0]
    /\ UNCHANGED <<consumerVars, procVars, storeVars, taskVars, userVars, engineVars, cacheVars>>

NextPages ==
    \/ Paginate
    \/ Search
    \/ LocalExpire
    \/ MemcachedExpire

SpecPages == InitSearch /\ [][NextPages]_vars

\* ------------------------------------------------------------------------
\* The select request built from user text
\* ------------------------------------------------------------------------
MaxTextLen == 3

\* The characters user text is made of here, and the texts up to a length.
TextChars == {"a", "\\", "+", "/", ":"}
RECURSIVE TextsOf(_)
TextsOf(n) ==
    IF n = 0 THEN {""}
    ELSE TextsOf(n - 1) \cup {c \o t : c \in TextChars, t \in TextsOf(n - 1)}

\* solrRepository.Search building q from a free-text query.
BuildQuery ==
    /\ lastSearch.op = "text"
    /\ \E text \in {lastSearch.text} :
       \E request \in {[ZeroRequest EXCEPT !.Query = text]} :
          lastSearch' = [op |-> "BuildQuery", text |-> text,
                         escaped |-> escapeSolrQuery(text),
                         q |-> SolrParams(request).q,
                         fq |-> SolrParams(request).fq, n |-> 0]
    /\ UNCHANGED <<consumerVars, procVars, storeVars, taskVars, userVars, engineVars, cacheVars>>

\* solrRepository.Search building fq from a city and a country filter.
BuildFilter ==
    /\ lastSearch.op = "text"
    /\ \E text \in {lastSearch.text}, field \in {"City", "Country"} :
       \E request \in {[ZeroRequest EXCEPT ![field] = text]} :
          lastSearch' = [op |-> "BuildFilter", text |-> text,
                         escaped |-> escapeSolrQuery(text),
                         q |-> SolrParams(request).q,
                         fq |-> SolrParams(request).fq, n |-> 0]
    /\ UNCHANGED <<consumerVars, procVars, storeVars, taskVars, userVars, engineVars, cacheVars>>

NextEscape ==
    \/ BuildQuery
    \/ BuildFilter

\* The text a request arrives with.
InitEscape ==
    /\ queue = <<>>
    /\ ConsumerIdle
    /\ canonical = [id \in PropertyIDs |-> Absent]
    /\ published = <<>>
    /\ tasks = NoTasks
    /\ NoUsers
    /\ solrDocs = EmptyEngine
    /\ solrIndex = EmptyEngine
    /\ localCache = EmptyCache
    /\ memcached = EmptyCache
    /\ lastSearch \in {[op |-> "text", text |-> t, n |-> 0] :
                          t \in TextsOf(MaxTextLen) \ {""}}

SpecEscape == InitEscape /\ [][NextEscape]_vars

\* ========================================================================
\* Users service: registration, login and account maintenance over the
\* users table (users-api)
\* ========================================================================
MaxUsers == 2

Usernames == {"ann", "bob@x.io"}
Emails == {"ann@x.io", "bob@x.io"}
Passwords == {"secret1", "secret2"}

UserTypeNormal == "normal"

\* A nil *domain.User.
NoUser == [id |-> 0]

\* What the store does with one statement: it answers, or the statement
\* fails (connection lost, timeout).
StoreOutcomes == {"ok", "error"}

\* The calls a service method makes; at most one of them fails per method
\* call, and Outcome(failing, call) is what that call meets.
ServiceCalls == {"byID", "byUsername", "byEmail", "hash", "write"}
NoFailure == "none"
Outcome(failing, call) == IF failing = call THEN "error" ELSE "ok"
StoreError == "store error"
DuplicateEntry == "Error 1062: Duplicate entry"
UserNotFound == "user not found"

\* bcrypt: the hash is not the password, and a password matches exactly the
\* hashes made from it.
HashPassword(password, outcome) ==
    IF outcome = "ok"
    THEN [hash |-> "$2a$10$" \o password, err |-> NoErr]
    ELSE [hash |-> "", err |-> "bcrypt: password refused"]

CheckPasswordHash(password, hash) == hash = "$2a$10$" \o password

\* The secret the service signs with, and a key that is not it.
JWTSecret == "k1"
OtherKey == "k2"

\* A token as text: the claims, whether its expiry lies ahead ("live") or
\* behind ("expired") when it is read, and the key of its signature.
SignedString(userID, username, userType, life, key) ==
    "jwt." \o ToString(userID) \o "." \o username \o "." \o userType
    \o "." \o life \o "." \o key

\* An HS256 token over the three claims, expiring in 24 hours; signing with
\* a byte-slice secret does not fail.
GenerateToken(userID, username, userType) ==
    [token |-> SignedString(userID, username, userType, "live", JWTSecret),
     err |-> NoErr]

\* strings.Split for a one-character separator.
RECURSIVE SplitFrom(_, _, _)
SplitFrom(s, sep, part) ==
    IF s = "" THEN <<part>>
    ELSE IF SubSeq(s, 1, 1) = sep
    THEN <<part>> \o SplitFrom(SubSeq(s, 2, Len(s)), sep, "")
    ELSE SplitFrom(SubSeq(s, 2, Len(s)), sep, part \o SubSeq(s, 1, 1))

Split(s, sep) == SplitFrom(s, sep, "")

RECURSIVE Join(_, _)
Join(parts, sep) ==
    IF parts = <<>> THEN ""
    ELSE IF Len(parts) = 1 THEN parts[1]
    ELSE parts[1] \o sep \o Join(Tail(parts), sep)

NoClaims == [user_id |-> "", username |-> "", user_type |-> ""]

\* The token parses, its signature is the secret's and it has not expired.
ValidateToken(tokenString) ==
    LET parts == Split(tokenString, ".")
        n == Len(parts)
    IN  IF n < 6 \/ parts[1] # "jwt"
        THEN [claims |-> NoClaims, err |-> "token is malformed"]
        ELSE IF parts[n] # JWTSecret
        THEN [claims |-> NoClaims, err |-> "signature is invalid"]
        ELSE IF parts[n - 1] # "live"
        THEN [claims |-> NoClaims, err |-> "token is expired"]
        ELSE [claims |-> [user_id |-> parts[2],
                          username |-> Join(SubSeq(parts, 3, n - 3), "."),
                          user_type |-> parts[n - 2]],
              err |-> NoErr]

\* ---- repository over the table; username and email carry unique indexes
Found(user) == [user |-> user, err |-> NoErr]
Missing(e) == [user |-> NoUser, err |-> e]

GetByID(rows, id, outcome) ==
    IF outcome = "error" THEN Missing(StoreError)
    ELSE IF id \in DOMAIN rows THEN Found(rows[id])
    ELSE Missing(UserNotFound)

GetByUsername(rows, username, outcome) ==
    IF outcome = "error" THEN Missing(StoreError)
    ELSE IF \E i \in DOMAIN rows : rows[i].username = username
    THEN Found(rows[CHOOSE i \in DOMAIN rows : rows[i].username = username])
    ELSE Missing(UserNotFound)

GetByEmail(rows, email, outcome) ==
    IF outcome = "error" THEN Missing(StoreError)
    ELSE IF \E i \in DOMAIN rows : rows[i].email = email
    THEN Found(rows[CHOOSE i \in DOMAIN rows : rows[i].email = email])
    ELSE Missing(UserNotFound)

UsernameInUse(rows, username) ==
    \E i \in DOMAIN rows : rows[i].username = username
EmailInUse(rows, email) == \E i \in DOMAIN rows : rows[i].email = email

\* Mutant of UniqueViolation: the table without its unique indexes.
UniqueViolation_NoIndex(rows, user) == FALSE

\* The unique indexes refuse a row whose username or email another row has.
UniqueViolation(rows, user) ==
    \E i \in DOMAIN rows \ {user.id} :
        rows[i].username = user.username \/ rows[i].email = user.email

userRepositoryCreate(rows, id, user, outcome) ==
    IF outcome = "error" THEN [rows |-> rows, user |-> user, err |-> StoreError]
    ELSE IF UniqueViolation(rows, [user EXCEPT !.id = id])
    THEN [rows |-> rows, user |-> user, err |-> DuplicateEntry]
    ELSE [rows |-> rows @@ (id :> [user EXCEPT !.id = id]),
          user |-> [user EXCEPT !.id = id], err |-> NoErr]

userRepositoryUpdate(rows, user, outcome) ==
    IF outcome = "error" THEN [rows |-> rows, err |-> StoreError]
    ELSE IF UniqueViolation(rows, user)
    THEN [rows |-> rows, err |-> DuplicateEntry]
    ELSE [rows |-> [i \in DOMAIN rows \cup {user.id} |->
                      IF i = user.id THEN user ELSE rows[i]],
          err |-> NoErr]

userRepositoryDelete(rows, id, outcome) ==
    IF outcome = "error" THEN [rows |-> rows, err |-> StoreError]
    ELSE [rows |-> [i \in DOMAIN rows \ {id} |-> rows[i]], err |-> NoErr]

\* ---- service
UserResult(user, e, rows) == [user |-> user, err |-> e, rows |-> rows]

CreateUser(rows, id, req, failing) ==
    IF GetByUsername(rows, req.username, Outcome(failing, "byUsername")).user # NoUser
    THEN UserResult(NoUser, "username already exists", rows)
    ELSE IF GetByEmail(rows, req.email, Outcome(failing, "byEmail")).user # NoUser
    THEN UserResult(NoUser, "email already exists", rows)
    ELSE LET hashed == HashPassword(req.password, Outcome(failing, "hash")) IN
         IF hashed.err # NoErr
         THEN UserResult(NoUser, "error hashing password", rows)
         ELSE LET user == [id |-> 0, username |-> req.username,
                           email |-> req.email, password |-> hashed.hash,
                           first_name |-> req.first_name,
                           last_name |-> req.last_name,
                           user_type |-> UserTypeNormal]
                  created == userRepositoryCreate(rows, id, user, Outcome(failing, "write"))
              IN  IF created.err # NoErr
                  THEN UserResult(NoUser, created.err, rows)
                  ELSE UserResult(created.user, NoErr, created.rows)

LoginResponse(token, user) == [token |-> token, user |-> user]
NoLoginResponse == LoginResponse("", NoUser)

\* Login telling a missing account from a wrong password.
Login_UserNotFound(rows, req, outcome) ==
    LET found == IF Contains(req.username_or_email, "@")
                 THEN GetByEmail(rows, req.username_or_email, outcome)
                 ELSE GetByUsername(rows, req.username_or_email, outcome)
    IN  IF found.err # NoErr
        THEN [response |-> NoLoginResponse, err |-> found.err]
        ELSE IF ~CheckPasswordHash(req.password, found.user.password)
        THEN [response |-> NoLoginResponse, err |-> "invalid credentials"]
        ELSE [response |->
                 LoginResponse(GenerateToken(found.user.id, found.user.username,
                                             found.user.user_type).token,
                               found.user),
              err |-> NoErr]
Login(rows, req, outcome) ==
    LET found == IF Contains(req.username_or_email, "@")
                 THEN GetByEmail(rows, req.username_or_email, outcome)
                 ELSE GetByUsername(rows, req.username_or_email, outcome)
    IN  IF found.err # NoErr
        THEN [response |-> NoLoginResponse, err |-> "invalid credentials"]
        ELSE IF ~CheckPasswordHash(req.password, found.user.password)
        THEN [response |-> NoLoginResponse, err |-> "invalid credentials"]
        ELSE LET signed == GenerateToken(found.user.id, found.user.username,
                                         found.user.user_type)
             IN  IF signed.err # NoErr
                 THEN [response |-> NoLoginResponse,
                       err |-> "error generating token"]
                 ELSE [response |-> LoginResponse(signed.token, found.user),
                       err |-> NoErr]

UpdateUser(rows, id, req, failing) ==
    LET got == GetByID(rows, id, Outcome(failing, "byID"))
        newName == req.username # "" /\ req.username # got.user.username
        newEmail == req.email # "" /\ req.email # got.user.email
    IN  IF got.err # NoErr THEN UserResult(NoUser, UserNotFound, rows)
        ELSE IF newName
                /\ GetByUsername(rows, req.username, Outcome(failing, "byUsername")).user # NoUser
        THEN UserResult(NoUser, "username already exists", rows)
        ELSE IF newEmail
                /\ GetByEmail(rows, req.email, Outcome(failing, "byEmail")).user # NoUser
        THEN UserResult(NoUser, "email already exists", rows)
        ELSE LET hashed == HashPassword(req.password, Outcome(failing, "hash"))
                 user == [got.user EXCEPT
                            !.username = IF newName THEN req.username ELSE @,
                            !.email = IF newEmail THEN req.email ELSE @,
                            !.first_name = IF req.first_name # ""
                                           THEN req.first_name ELSE @,
                            !.last_name = IF req.last_name # ""
                                          THEN req.last_name ELSE @,
                            !.password = IF req.password # ""
                                         THEN hashed.hash ELSE @]
                 saved == userRepositoryUpdate(rows, user, Outcome(failing, "write"))
             IN  IF req.password # "" /\ hashed.err # NoErr
                 THEN UserResult(NoUser, "error hashing password", rows)
                 ELSE IF saved.err # NoErr
                 THEN UserResult(NoUser, saved.err, rows)
                 ELSE UserResult(user, NoErr, saved.rows)

DeleteUser(rows, id, failing) ==
    IF GetByID(rows, id, Outcome(failing, "byID")).err # NoErr
    THEN [err |-> UserNotFound, rows |-> rows]
    ELSE LET deleted == userRepositoryDelete(rows, id, Outcome(failing, "write"))
         IN  [err |-> deleted.err, rows |-> deleted.rows]

\* ---- requests
CreateUserRequests ==
    [username : Usernames, email : Emails, password : {"secret1"},
     first_name : {"Ann"}, last_name : {"Lee"}]

LoginRequests ==
    [username_or_email : Usernames \cup Emails, password : Passwords]

\* An update names the fields to change and leaves the others empty.
KeepAll ==
    [username |-> "", email |-> "", password |-> "", first_name |-> "",
     last_name |-> ""]

UpdateUserRequests ==
    {[KeepAll EXCEPT !.username = u] : u \in Usernames}
    \cup {[KeepAll EXCEPT !.email = e] : e \in Emails}
    \cup {[KeepAll EXCEPT !.username = "ann", !.email = "ann@x.io"]}
    \cup {[KeepAll EXCEPT !.password = "secret2", !.first_name = "Zoe",
                           !.last_name = "Roe"]}

Failures == ServiceCalls \cup {NoFailure}

UserIDs == 1..MaxUsers

\* ---- one call of the service, from request to returned values
CallCreateUser ==
    /\ nextID <= MaxUsers
    /\ \E req \in CreateUserRequests, failing \in Failures \ {"byID"} :
          LET r == CreateUser(users, nextID, req, failing) IN
          /\ users' = r.rows
          /\ nextID' = IF r.err = NoErr THEN nextID + 1 ELSE nextID
          /\ lastCall' = [op |-> "CreateUser", req |-> req,
                          usernameInUse |->
                              UsernameInUse(users, req.username),
                          emailInUse |-> EmailInUse(users, req.email),
                          user |-> r.user, err |-> r.err,
                          stored |-> r.rows # users]
    /\ UNCHANGED <<consumerVars, procVars, storeVars, taskVars, engineVars, cacheVars,
                   lastSearch>>

CallLogin ==
    /\ \E req \in LoginRequests, outcome \in StoreOutcomes :
          LET r == Login(users, req, outcome) IN
          lastCall' = [op |-> "Login", req |-> req, lookup |-> outcome,
                       response |-> r.response, err |-> r.err]
    /\ UNCHANGED <<consumerVars, procVars, storeVars, taskVars, engineVars, cacheVars,
                   users, nextID, lastSearch>>

CallUpdateUser ==
    /\ \E id \in UserIDs, req \in UpdateUserRequests, failing \in Failures :
          LET r == UpdateUser(users, id, req, failing) IN
          /\ users' = r.rows
          /\ lastCall' = [op |-> "UpdateUser", id |-> id, req |-> req,
                          user |-> r.user, err |-> r.err,
                          stored |-> r.rows # users]
    /\ UNCHANGED <<consumerVars, procVars, storeVars, taskVars, engineVars, cacheVars,
                   nextID, lastSearch>>

CallDeleteUser ==
    /\ \E id \in UserIDs, failing \in {NoFailure, "byID", "write"} :
          LET r == DeleteUser(users, id, failing) IN
          /\ users' = r.rows
          /\ lastCall' = [op |-> "DeleteUser", id |-> id,
                          err |-> r.err, stored |-> r.rows # users]
    /\ UNCHANGED <<consumerVars, procVars, storeVars, taskVars, engineVars, cacheVars,
                   nextID, lastSearch>>

NextUsers ==
    \/ CallCreateUser
    \/ CallLogin
    \/ CallUpdateUser
    \/ CallDeleteUser

InitUsers ==
    /\ queue = <<>>
    /\ ConsumerIdle
    /\ canonical = [id \in PropertyIDs |-> Absent]
    /\ published = <<>>
    /\ tasks = NoTasks
    /\ NoUsers
    /\ solrDocs = EmptyEngine
    /\ solrIndex = EmptyEngine
    /\ localCache = EmptyCache
    /\ memcached = EmptyCache
    /\ lastSearch = NoSearch

SpecUsers == InitUsers /\ [][NextUsers]_vars

\* ------------------------------------------------------------------------
\* The /admin route group of the users API: CORS, the two middlewares and
\* the handlers behind them
\* ------------------------------------------------------------------------
UserTypeAdmin == "admin"

\* What a middleware leaves behind: the response it wrote (status 0: none),
\* whether it aborted the chain, and the keys set on the context.
Aborted(status, message) ==
    [status |-> status, error |-> message, abort |-> TRUE, keys |-> {}]
Continue(keys) == [status |-> 0, error |-> "", abort |-> FALSE, keys |-> keys]

\* A middleware that lets every signed-in user through.
AdminMiddleware_AnyUser(keys) ==
    IF ~\E k \in keys : k[1] = "user_type"
    THEN Aborted(401, "user type not found")
    ELSE Continue(keys)

AdminMiddleware(keys) ==
    IF ~\E k \in keys : k[1] = "user_type"
    THEN Aborted(401, "user type not found")
    ELSE IF (CHOOSE k \in keys : k[1] = "user_type")[2] # "admin"
    THEN Aborted(403, "admin privileges required")
    ELSE Continue(keys)

AuthMiddleware(authHeader) ==
    LET parts == Split(authHeader, " ") IN
    IF authHeader = ""
    THEN Aborted(401, "authorization header required")
    ELSE IF Len(parts) # 2 \/ parts[1] # "Bearer"
    THEN Aborted(401, "invalid authorization header format")
    ELSE LET validated == ValidateToken(parts[2]) IN
         IF validated.err # NoErr
         THEN Aborted(401, "invalid or expired token")
         ELSE Continue({<<"user_id", validated.claims.user_id>>,
                        <<"username", validated.claims.username>>,
                        <<"user_type", validated.claims.user_type>>})

\* The handlers of the group; each answers with a status and the table.
Answer(status, rows) == [status |-> status, rows |-> rows]

ControllerGetAllUsers(rows, failing) ==
    IF Outcome(failing, "write") = "error" THEN Answer(500, rows)
    ELSE Answer(200, rows)

ControllerUpdateUser(rows, id, req, failing) ==
    LET r == UpdateUser(rows, id, req, failing) IN
    IF r.err # NoErr THEN Answer(400, rows) ELSE Answer(200, r.rows)

ControllerDeleteUser(rows, id, failing) ==
    LET r == DeleteUser(rows, id, failing) IN
    IF r.err # NoErr THEN Answer(404, rows) ELSE Answer(200, r.rows)

AdminMethods == {"GET", "PUT", "DELETE"}

AdminHandler(method, rows, id, req, failing) ==
    IF method = "GET" THEN ControllerGetAllUsers(rows, failing)
    ELSE IF method = "PUT" THEN ControllerUpdateUser(rows, id, req, failing)
    ELSE ControllerDeleteUser(rows, id, failing)

\* One request to a path of the group: the router's CORS function, then
\* AuthMiddleware, AdminMiddleware and the handler, each unless aborted.
AdminRoute(method, authHeader, rows, id, req, failing) ==
    LET auth == AuthMiddleware(authHeader)
        admin == AdminMiddleware(auth.keys)
        answer == AdminHandler(method, rows, id, req, failing)
    IN  IF method = "OPTIONS"
        THEN [status |-> 204, handler |-> FALSE, rows |-> rows]
        ELSE IF auth.abort
        THEN [status |-> auth.status, handler |-> FALSE, rows |-> rows]
        ELSE IF admin.abort
        THEN [status |-> admin.status, handler |-> FALSE, rows |-> rows]
        ELSE [status |-> answer.status, handler |-> TRUE,
              rows |-> answer.rows]

\* ---- requests
AdminToken == GenerateToken(1, "ann", UserTypeAdmin).token
NormalToken == GenerateToken(2, "bob", UserTypeNormal).token

TokensTried ==
    {AdminToken, NormalToken,
     SignedString(1, "ann", "admin", "expired", JWTSecret),
     SignedString(2, "bob", "admin", "live", OtherKey),
     SignedString(2, "bob@x.io", "normal", "live", JWTSecret),
     "garbage", ""}

AuthHeaders ==
    {"", "Bearer", AdminToken, "Bearer  " \o AdminToken,
     "bearer " \o AdminToken, "Basic " \o AdminToken,
     "Bearer " \o AdminToken \o " x"}
    \cup {"Bearer " \o t : t \in TokensTried}

\* What the requests ask for: the user acted on and the update sent.
AdminTargets == {2}
AdminUpdates == {[KeepAll EXCEPT !.username = "bob", !.first_name = "Zoe"]}

\* The accounts the table starts with: an administrator and a normal user.
SeededUsers ==
    (1 :> [id |-> 1, username |-> "ann", email |-> "ann@x.io",
           password |-> HashPassword("secret1", "ok").hash,
           first_name |-> "Ann", last_name |-> "Lee",
           user_type |-> UserTypeAdmin])
    @@ (2 :> [id |-> 2, username |-> "bob@x.io", email |-> "bob@x.io",
              password |-> HashPassword("secret2", "ok").hash,
              first_name |-> "Bob", last_name |-> "Ray",
              user_type |-> UserTypeNormal])

AdminRequest ==
    /\ \E method \in AdminMethods \cup {"OPTIONS"}, authHeader \in AuthHeaders,
          id \in AdminTargets, req \in AdminUpdates,
          failing \in {NoFailure, "write"} :
          LET r == AdminRoute(method, authHeader, users, id, req, failing) IN
          /\ users' = r.rows
          /\ lastCall' = [op |-> "admin", method |-> method,
                          header |-> authHeader, id |-> id,
                          status |-> r.status, handler |-> r.handler,
                          stored |-> r.rows # users]
    /\ UNCHANGED <<consumerVars, procVars, storeVars, taskVars, engineVars, cacheVars,
                   nextID, lastSearch>>

NextAdmin == AdminRequest

InitAdmin ==
    /\ queue = <<>>
    /\ ConsumerIdle
    /\ canonical = [id \in PropertyIDs |-> Absent]
    /\ published = <<>>
    /\ tasks = NoTasks
    /\ users = SeededUsers
    /\ nextID = 3
    /\ lastCall = NoCall
    /\ solrDocs = EmptyEngine
    /\ solrIndex = EmptyEngine
    /\ localCache = EmptyCache
    /\ memcached = EmptyCache
    /\ lastSearch = NoSearch

SpecAdmin == InitAdmin /\ [][NextAdmin]_vars

\* ------------------------------------------------------------------------
\* Two consumer instances on one queue: each its own process with its own
\* channel (prefetch 1), sharing the broker's queue, the canonical store
\* and the engine
\* ------------------------------------------------------------------------
Instances == {"c1", "c2"}

\* An instance between two deliveries.
IdleInstance ==
    [pc |-> "idle", cur |-> NoDelivery, prop |-> ZeroProperty, err |-> NoErr,
     seen |-> 0]

\* tasks.inst: the instances.  tasks.history: the states the canonical
\* store went through, oldest first.  tasks.applied: for each committed
\* engine write, in commit order, the position in history of the state the
\* writer had fetched.
Instance(i) == tasks.inst[i]

SetInstance(i, r) == [tasks EXCEPT !.inst[i] = r]

\* The catalog service updates the listing and publishes the event.
RacePublish ==
    /\ Len(published) < MaxPublished
    /\ \E id \in PropertyIDs, l \in ValidListings :
          /\ canonical[id] \notin {Absent, l}
          /\ l.id = id
          /\ canonical' = [canonical EXCEPT ![id] = l]
          /\ published' = Append(published, Body("update", id))
          /\ queue' = Append(queue, Body("update", id))
          /\ tasks' = [tasks EXCEPT !.history = Append(@, l)]
    /\ UNCHANGED <<msgs, unacked, nextTag, pc, cur, pmsg, prop, err, trace,
                   last, now, ctxDeadline, callStart>>
    /\ UNCHANGED <<procVars, engineVars, cacheVars, userVars, lastSearch>>

\* The broker delivers the head of the queue to an instance that has no
\* unacknowledged delivery, and the instance's loop calls processMessage,
\* which runs up to the switch on Action.
RaceReceive(i) ==
    /\ Instance(i).pc = "idle"
    /\ queue # <<>>
    /\ nextTag <= MaxDeliveries
    /\ LET h == DispatchOf(Head(queue))
           d == [tag |-> nextTag, body |-> Head(queue)]
       IN  IF h = "reject"
           THEN /\ tasks' = tasks
                /\ unacked' = unacked
           ELSE /\ tasks' = SetInstance(i, [IdleInstance EXCEPT
                                  !.pc = IF h = "handleDelete"
                                         THEN "mutate" ELSE "fetch",
                                  !.cur = d])
                /\ unacked' = unacked \cup {nextTag}
    /\ queue' = Tail(queue)
    /\ nextTag' = nextTag + 1
    /\ UNCHANGED <<msgs, pc, cur, pmsg, prop, err, trace, last, now,
                   ctxDeadline, callStart>>
    /\ UNCHANGED <<procVars, storeVars, engineVars, cacheVars, userVars,
                   lastSearch>>

\* handleCreate / handleUpdate, step 1, in instance i.
RaceFetch(i) ==
    /\ Instance(i).pc = "fetch"
    /\ \E outcome \in FetchOutcomes :
          LET r == FetchPropertyFromAPI(
                       Unmarshal(Instance(i).cur.body).PropertyID, outcome)
          IN  tasks' = SetInstance(i,
                  IF r.err # NoErr
                  THEN [Instance(i) EXCEPT
                          !.pc = "result",
                          !.err = "failed to fetch property from API: "
                                  \o r.err]
                  ELSE [Instance(i) EXCEPT
                          !.pc = "mutate", !.prop = r.property,
                          !.seen = Len(tasks.history)])
    /\ UNCHANGED <<consumerVars, procVars, storeVars, engineVars, cacheVars,
                   userVars, lastSearch>>

\* The service call of the handler in instance i.
RaceMutation(i, post, commitOutcome) ==
    LET m == Unmarshal(Instance(i).cur.body) IN
    IF m.Action = "create"
    THEN IndexProperty(Instance(i).prop, post, commitOutcome)
    ELSE IF m.Action = "update"
    THEN UpdateProperty(Instance(i).prop, post, commitOutcome)
    ELSE DeleteProperty(m.PropertyID, post, commitOutcome)

\* handleCreate / handleUpdate step 2, handleDelete, in instance i.
RaceMutate(i) ==
    /\ Instance(i).pc = "mutate"
    /\ \E o \in EngineOutcomes :
          LET r == RaceMutation(i, o[1], o[2]) IN
          /\ solrDocs' = r.docs
          /\ solrIndex' = r.index
          /\ memcached' = TierAfterWrite(memcached, r.err)
          /\ localCache' = TierAfterWrite(localCache, r.err)
          /\ tasks' = [SetInstance(i, [Instance(i) EXCEPT
                                         !.pc = "result",
                                         !.err = r.err])
                         EXCEPT !.applied = IF r.err = NoErr
                                            THEN Append(@, Instance(i).seen)
                                            ELSE @]
    /\ UNCHANGED <<consumerVars, procVars, storeVars, userVars, lastSearch>>

\* processMessage, "Manejar resultado", in instance i; the broker settles
\* the delivery.
RaceFinish(i) ==
    /\ Instance(i).pc = "result"
    /\ unacked' = unacked \ {Instance(i).cur.tag}
    /\ queue' = IF ResultDispositions(Instance(i).err)[1] = NackRequeue
                THEN <<Instance(i).cur.body>> \o queue ELSE queue
    /\ tasks' = SetInstance(i, IdleInstance)
    /\ UNCHANGED <<msgs, nextTag, pc, cur, pmsg, prop, err, trace, last, now,
                   ctxDeadline, callStart>>
    /\ UNCHANGED <<procVars, storeVars, engineVars, cacheVars, userVars,
                   lastSearch>>

NextRace ==
    \/ RacePublish
    \/ \E i \in Instances : RaceReceive(i)
    \/ \E i \in Instances : RaceFetch(i)
    \/ \E i \in Instances : RaceMutate(i)
    \/ \E i \in Instances : RaceFinish(i)

\* The listing is in the canonical store and indexed as it is there.
InitRace ==
    /\ queue = <<>>
    /\ ConsumerIdle
    /\ canonical = [id \in PropertyIDs |-> LoftV1]
    /\ published = <<>>
    /\ NoUsers
    /\ tasks = [inst |-> [i \in Instances |-> IdleInstance],
                history |-> <<LoftV1>>, applied |-> <<>>]
    /\ solrDocs = [id \in PropertyIDs |-> LoftV1]
    /\ solrIndex = [id \in PropertyIDs |-> LoftV1]
    /\ localCache = EmptyCache
    /\ memcached = EmptyCache
    /\ lastSearch = NoSearch

SpecRace == InitRace /\ [][NextRace]_vars

\* ------------------------------------------------------------------------
\* The cache repository under concurrent request tasks and a clock: Get,
\* Set and Delete as the sequence of tier accesses each one makes.  Time is
\* in minutes; Memcached answers every request.
\* ------------------------------------------------------------------------
MaxClock == 16

RequestTasks == {"t1", "t2"}
TierKey == "k"
TierValues == {"a", "b"}

\* An entry of a tier: the value and the time it expires at.
Entry(value, ttl) == [value |-> value, expires |-> now + ttl]

\* item != nil && !item.Expired() for the local tier; a stored, unexpired
\* item for Memcached.
Holds(tier, key) == key \in DOMAIN tier /\ now < tier[key].expires

\* noSetSince: no Set wrote the key since the Delete the task is running
\* began or, for a Get, since a Delete returned before the Get began.
IdleTask == [pc |-> "idle", value |-> "", noSetSince |-> FALSE]

Task(t) == tasks.run[t]

\* tasks.run: the request tasks.  tasks.last: the last call that returned.
\* tasks.deleted: a Delete of the key returned and no Set wrote since it
\* began.
\* tasks.wrote: when a Set last wrote each value (-1: never).
TaskReturned(t, call) == [tasks EXCEPT !.run[t] = IdleTask, !.last = call]

NoTierCall ==
    [op |-> "none", found |-> FALSE, value |-> "", late |-> FALSE,
     afterDelete |-> FALSE]

\* late: the value comes back later than MemcachedTTL after its last Set.
GetReturn(t, found, value) ==
    TaskReturned(t, [NoTierCall EXCEPT
        !.op = "get", !.found = found, !.value = value,
        !.late = found /\ now > tasks.wrote[value] + MemcachedTTL,
        !.afterDelete = Task(t).noSetSince])

\* Get, step 1: the local tier.
GetLocal(t) ==
    /\ Task(t).pc = "idle"
    /\ IF Holds(localCache, TierKey)
       THEN tasks' = [GetReturn(t, TRUE, localCache[TierKey].value)
                        EXCEPT !.last.afterDelete = tasks.deleted]
       ELSE tasks' = [tasks EXCEPT !.run[t] =
                        [IdleTask EXCEPT !.pc = "get.remote",
                                         !.noSetSince = tasks.deleted]]
    /\ UNCHANGED <<consumerVars, procVars, storeVars, engineVars, cacheVars,
                   userVars, lastSearch>>

\* Get, step 2: Memcached.
GetRemote(t) ==
    /\ Task(t).pc = "get.remote"
    /\ IF Holds(memcached, TierKey)
       THEN tasks' = [tasks EXCEPT !.run[t].pc = "get.fill",
                                   !.run[t].value = memcached[TierKey].value]
       ELSE tasks' = GetReturn(t, FALSE, "")
    /\ UNCHANGED <<consumerVars, procVars, storeVars, engineVars, cacheVars,
                   userVars, lastSearch>>

\* Get, step 4: the value read from Memcached goes into the local tier.
GetFill(t) ==
    /\ Task(t).pc = "get.fill"
    /\ localCache' = (TierKey :> Entry(Task(t).value, LocalTTL))
    /\ tasks' = GetReturn(t, TRUE, Task(t).value)
    /\ UNCHANGED <<consumerVars, procVars, storeVars, engineVars, memcached,
                   userVars, lastSearch>>

\* Set, step 1: the local tier.
SetLocal(t) ==
    /\ Task(t).pc = "idle"
    /\ \E v \in TierValues :
          /\ localCache' = (TierKey :> Entry(v, LocalTTL))
          /\ tasks' = [tasks EXCEPT
                 !.run = [u \in RequestTasks |->
                            IF u = t
                            THEN [IdleTask EXCEPT !.pc = "set.remote",
                                                  !.value = v]
                            ELSE [Task(u) EXCEPT !.noSetSince = FALSE]],
                 !.deleted = FALSE,
                 !.wrote[v] = now]
    /\ UNCHANGED <<consumerVars, procVars, storeVars, engineVars, memcached,
                   userVars, lastSearch>>

\* Set, step 3: Memcached.
SetRemote(t) ==
    /\ Task(t).pc = "set.remote"
    /\ memcached' = (TierKey :> Entry(Task(t).value, MemcachedTTL))
    /\ tasks' = [tasks EXCEPT
           !.run = [u \in RequestTasks |->
                      IF u = t THEN IdleTask
                      ELSE [Task(u) EXCEPT !.noSetSince = FALSE]],
           !.last = [NoTierCall EXCEPT !.op = "set"],
           !.deleted = FALSE,
           !.wrote[Task(t).value] = now]
    /\ UNCHANGED <<consumerVars, procVars, storeVars, engineVars, localCache,
                   userVars, lastSearch>>

\* Delete, step 1: the local tier.
DeleteLocal(t) ==
    /\ Task(t).pc = "idle"
    /\ localCache' = EmptyCache
    /\ tasks' = [tasks EXCEPT !.run[t].pc = "delete.remote",
                              !.run[t].noSetSince = TRUE]
    /\ UNCHANGED <<consumerVars, procVars, storeVars, engineVars, memcached,
                   userVars, lastSearch>>

\* Delete, step 2: Memcached; Delete returns.
DeleteRemote(t) ==
    /\ Task(t).pc = "delete.remote"
    /\ memcached' = EmptyCache
    /\ tasks' = [TaskReturned(t, [NoTierCall EXCEPT !.op = "delete"])
                   EXCEPT !.deleted = Task(t).noSetSince]
    /\ UNCHANGED <<consumerVars, procVars, storeVars, engineVars, localCache,
                   userVars, lastSearch>>

\* A minute passes between calls.
Minute ==
    /\ \A t \in RequestTasks : Task(t).pc = "idle"
    /\ now < MaxClock
    /\ now' = now + 1
    /\ UNCHANGED <<queue, msgs, unacked, nextTag, pc, cur, pmsg, prop, err,
                   trace, last, ctxDeadline, callStart>>
    /\ UNCHANGED <<procVars, storeVars, engineVars, cacheVars, userVars,
                   taskVars, lastSearch>>

NextTiers ==
    \/ \E t \in RequestTasks : GetLocal(t)
    \/ \E t \in RequestTasks : GetRemote(t)
    \/ \E t \in RequestTasks : GetFill(t)
    \/ \E t \in RequestTasks : SetLocal(t)
    \/ \E t \in RequestTasks : SetRemote(t)
    \/ \E t \in RequestTasks : DeleteLocal(t)
    \/ \E t \in RequestTasks : DeleteRemote(t)
    \/ Minute

InitTiers ==
    /\ queue = <<>>
    /\ ConsumerIdle
    /\ canonical = [id \in PropertyIDs |-> Absent]
    /\ published = <<>>
    /\ NoUsers
    /\ tasks = [run |-> [t \in RequestTasks |-> IdleTask],
                last |-> NoTierCall,
                deleted |-> FALSE,
                wrote |-> [v \in TierValues |-> -1]]
    /\ solrDocs = EmptyEngine
    /\ solrIndex = EmptyEngine
    /\ localCache = EmptyCache
    /\ memcached = EmptyCache
    /\ lastSearch = NoSearch

SpecTiers == InitTiers /\ [][NextTiers]_vars

\* ------------------------------------------------------------------------
\* The cache key and the select request of a pair of searches
\* ------------------------------------------------------------------------
\* Text with the characters generateCacheKey joins its parts with, and
\* prices in thousandths that differ in the third decimal or in the second.
KeyTexts == {"", "a", "a|city:a"}
KeyPrices == {0, 10001, 10004, 10010}

\* Requests as searchService.Search has them after validateSearchRequest.
KeyRequests ==
    {validateSearchRequest(r).request :
        r \in {x \in {[ZeroRequest EXCEPT !.Query = q, !.City = c,
                                          !.MinPrice = p, !.Page = g] :
                          q \in KeyTexts, c \in KeyTexts, p \in KeyPrices,
                          g \in {1, 2}} :
                 validateSearchRequest(x).err = NoErr}}

\* searchService.Search for both: the key it looks up and stores under,
\* and the select request solrRepository.Search sends on a miss.
Fingerprint ==
    /\ lastSearch.op = "pair"
    /\ lastSearch' = [op |-> "Fingerprint",
                      first |-> lastSearch.first,
                      second |-> lastSearch.second,
                      keys |-> <<generateCacheKey(lastSearch.first),
                                 generateCacheKey(lastSearch.second)>>,
                      selects |-> <<SolrParams(lastSearch.first),
                                    SolrParams(lastSearch.second)>>]
    /\ UNCHANGED <<consumerVars, procVars, storeVars, taskVars, userVars,
                   engineVars, cacheVars>>

NextKeys == Fingerprint

InitKeys ==
    /\ queue = <<>>
    /\ ConsumerIdle
    /\ canonical = [id \in PropertyIDs |-> Absent]
    /\ published = <<>>
    /\ tasks = NoTasks
    /\ NoUsers
    /\ solrDocs = EmptyEngine
    /\ solrIndex = EmptyEngine
    /\ localCache = EmptyCache
    /\ memcached = EmptyCache
    /\ lastSearch \in {[op |-> "pair", first |-> a, second |-> b] :
                          a \in KeyRequests, b \in KeyRequests}

SpecKeys == InitKeys /\ [][NextKeys]_vars

\* ------------------------------------------------------------------------
\* The consumer over an unbounded run: the broker redelivers for as long as
\* the message is requeued, and from some point on the canonical store and
\* the engine answer every call successfully.
\* ------------------------------------------------------------------------
\* tasks.healthy: the point has been reached.
Unhealthy == [healthy |-> FALSE]

\* Every call the step made was answered successfully.
AnsweredOk == \A i \in (Len(trace) + 1)..Len(trace') : trace'[i].ok

\* Broker: deliver the head of the queue.  Delivery tags are reused once
\* settled (at most PrefetchCount are unsettled at a time).
DeliverLive ==
    /\ proc.channel = "open"
    /\ queue # <<>>
    /\ CanDeliver
    /\ msgs' = Append(msgs, [tag |-> nextTag, body |-> Head(queue)])
    /\ queue' = Tail(queue)
    /\ unacked' = unacked \cup {nextTag}
    /\ nextTag' = (nextTag % MaxDeliveries) + 1
    /\ UNCHANGED <<pc, cur, pmsg, prop, err, trace, last, now, ctxDeadline, callStart>>
    /\ UNCHANGED <<procVars, storeVars, taskVars, userVars, engineVars, cacheVars, lastSearch>>

FetchLive == Fetch /\ (tasks.healthy => AnsweredOk)

MutateLive == Mutate /\ (tasks.healthy => AnsweredOk)

\* The collaborators recover.
Recover ==
    /\ ~tasks.healthy
    /\ tasks' = [healthy |-> TRUE]
    /\ UNCHANGED <<consumerVars, procVars, storeVars, userVars, engineVars,
                   cacheVars, lastSearch>>

\* The steps of the goroutine Start launched.
ConsumerStep ==
    \/ Receive
    \/ Dispatch
    \/ StartHandler
    \/ FetchLive
    \/ MutateLive
    \/ Finish

NextLive ==
    \/ DeliverLive
    \/ ConsumerStep
    \/ Recover

\* The canonical store holds a listing for every identifier, so a fetch it
\* answers is answered with a listing.
InitLive ==
    /\ queue \in Queues
    /\ ConsumerIdle
    /\ canonical \in [PropertyIDs -> CanonicalStates \ {Absent}]
    /\ published = <<>>
    /\ tasks = Unhealthy
    /\ NoUsers
    /\ solrDocs = EmptyEngine
    /\ solrIndex = EmptyEngine
    /\ localCache = EmptyCache
    /\ memcached = EmptyCache
    /\ lastSearch = NoSearch

\* The goroutine keeps running, the broker keeps delivering, and the
\* collaborators do recover.
SpecLive ==
    /\ InitLive
    /\ [][NextLive]_vars
    /\ WF_vars(ConsumerStep)
    /\ WF_vars(DeliverLive)
    /\ WF_vars(Recover)

\* ------------------------------------------------------------------------
\* Two CreateUser calls running side by side (one goroutine per request),
\* each as the sequence of its repository calls
\* ------------------------------------------------------------------------
NotStarted == [pc |-> "start", req |-> NoCall, hash |-> "", user |-> NoUser,
               err |-> NoErr]

Signup(t) == tasks[t]

SignupReturn(t, user, e) ==
    tasks' = [tasks EXCEPT ![t].pc = "done", ![t].user = user, ![t].err = e]

\* The request arrives.
SignupBegin(t) ==
    /\ Signup(t).pc = "start"
    /\ \E req \in CreateUserRequests :
          tasks' = [tasks EXCEPT ![t].pc = "byUsername", ![t].req = req]
    /\ UNCHANGED <<consumerVars, procVars, storeVars, engineVars, cacheVars,
                   userVars, lastSearch>>

\* 1. existingUser, _ := s.repo.GetByUsername(req.Username)
SignupByUsername(t) ==
    /\ Signup(t).pc = "byUsername"
    /\ \E outcome \in StoreOutcomes :
          IF GetByUsername(users, Signup(t).req.username, outcome).user # NoUser
          THEN SignupReturn(t, NoUser, "username already exists")
          ELSE tasks' = [tasks EXCEPT ![t].pc = "byEmail"]
    /\ UNCHANGED <<consumerVars, procVars, storeVars, engineVars, cacheVars,
                   userVars, lastSearch>>

\* 2. existingUser, _ = s.repo.GetByEmail(req.Email)
SignupByEmail(t) ==
    /\ Signup(t).pc = "byEmail"
    /\ \E outcome \in StoreOutcomes :
          IF GetByEmail(users, Signup(t).req.email, outcome).user # NoUser
          THEN SignupReturn(t, NoUser, "email already exists")
          ELSE tasks' = [tasks EXCEPT ![t].pc = "hash"]
    /\ UNCHANGED <<consumerVars, procVars, storeVars, engineVars, cacheVars,
                   userVars, lastSearch>>

\* 3. utils.HashPassword(req.Password)
SignupHash(t) ==
    /\ Signup(t).pc = "hash"
    /\ \E outcome \in StoreOutcomes :
          LET hashed == HashPassword(Signup(t).req.password, outcome) IN
          IF hashed.err # NoErr
          THEN SignupReturn(t, NoUser, "error hashing password")
          ELSE tasks' = [tasks EXCEPT ![t].pc = "create", ![t].hash = hashed.hash]
    /\ UNCHANGED <<consumerVars, procVars, storeVars, engineVars, cacheVars,
                   userVars, lastSearch>>

\* 4, 5. s.repo.Create(user): the INSERT, which the table accepts or
\* refuses as one step.
SignupCreate(t) ==
    /\ Signup(t).pc = "create"
    /\ nextID <= MaxUsers
    /\ \E outcome \in StoreOutcomes :
          LET req == Signup(t).req
              user == [id |-> 0, username |-> req.username,
                       email |-> req.email, password |-> Signup(t).hash,
                       first_name |-> req.first_name,
                       last_name |-> req.last_name,
                       user_type |-> UserTypeNormal]
              created == userRepositoryCreate(users, nextID, user, outcome)
          IN  /\ users' = created.rows
              /\ nextID' = IF created.err = NoErr THEN nextID + 1 ELSE nextID
              /\ IF created.err # NoErr
                 THEN SignupReturn(t, NoUser, created.err)
                 ELSE SignupReturn(t, created.user, NoErr)
    /\ UNCHANGED lastCall
    /\ UNCHANGED <<consumerVars, procVars, storeVars, engineVars, cacheVars,
                   lastSearch>>

NextSignup ==
    \/ \E t \in RequestTasks : SignupBegin(t)
    \/ \E t \in RequestTasks : SignupByUsername(t)
    \/ \E t \in RequestTasks : SignupByEmail(t)
    \/ \E t \in RequestTasks : SignupHash(t)
    \/ \E t \in RequestTasks : SignupCreate(t)

InitSignup ==
    /\ queue = <<>>
    /\ ConsumerIdle
    /\ canonical = [id \in PropertyIDs |-> Absent]
    /\ published = <<>>
    /\ tasks = [t \in RequestTasks |-> NotStarted]
    /\ NoUsers
    /\ solrDocs = EmptyEngine
    /\ solrIndex = EmptyEngine
    /\ localCache = EmptyCache
    /\ memcached = EmptyCache
    /\ lastSearch = NoSearch

SpecSignup == InitSignup /\ [][NextSignup]_vars

\* ========================================================================
\* Properties
\* ========================================================================
HasCall(tr, op) == \E i \in 1..Len(tr) : tr[i].op = op
AllOk(tr) == \A i \in 1..Len(tr) : tr[i].ok
Ops(tr) == [i \in 1..Len(tr) |-> tr[i].op]
EngineOps == {"solr.add", "solr.delete", "solr.commit"}

\* The message parses, names a listing and carries a handled action.
WellFormedMessage(body) ==
    /\ body.wellFormed
    /\ body.property_id # ""
    /\ body.action \in HandledActions

\* Every step of the handler of the message was made and succeeded.
HandlerSucceeded(l) ==
    /\ AllOk(l.trace)
    /\ Ops(l.trace) = IF l.body.action = "delete"
                      THEN <<"solr.delete", "solr.commit">>
                      ELSE <<"properties.get", "solr.add", "solr.commit">>

Returned == last.tag # 0
Processing == cur # NoDelivery

\* C1: every delivery processMessage returned from got exactly one
\* disposition, one of ack / nack without requeue / nack with requeue, and
\* it is the ack exactly when the message was well formed and every step of
\* its handler succeeded; an acked delivery is settled at the broker.
C1_ExactlyOneDisposition ==
    Returned =>
        /\ Len(last.disps) = 1
        /\ last.disps[1] \in Dispositions
        /\ (last.disps[1] = Ack) <=>
               (WellFormedMessage(last.body) /\ HandlerSucceeded(last))
        /\ last.tag \notin unacked

C1_Witness ==
    /\ Returned
    /\ last.body = Body("create", "p1")
    /\ last.disps = <<Ack>>

\* C2: a message that does not parse, has an empty property_id or an
\* unknown action never gets past the dispatch (no handler runs, no outbound
\* call is made) and is nacked without requeue.
C2_MalformedRejected ==
    /\ (Processing /\ ~WellFormedMessage(cur.body)) =>
           (pc = "received" /\ trace = <<>>)
    /\ (Returned /\ ~WellFormedMessage(last.body)) =>
           (last.disps = <<NackDrop>> /\ last.trace = <<>> /\ last.handler = "reject")

C2_Witness ==
    /\ Returned
    /\ last.body = Body("archive", "p1")
    /\ last.disps = <<NackDrop>>

\* The calls of a create/update handler: the canonical fetch first, engine
\* calls only after it succeeded.
FetchFirst(tr) ==
    /\ tr # <<>> => tr[1].op = "properties.get"
    /\ \A i \in 2..Len(tr) : tr[i].op \in EngineOps /\ tr[1].ok

\* C3: for create and update the canonical fetch is the first call and the
\* engine is called only after it succeeded; a failed fetch ends the
\* handler; any failed call leads to nack with requeue.
C3_FetchThenEngine ==
    /\ (Processing /\ DispatchOf(cur.body) \in {"handleCreate", "handleUpdate"}) =>
           /\ FetchFirst(trace)
           /\ pc \in {"mutate", "result"} => trace # <<>>
    /\ (Returned /\ last.handler \in {"handleCreate", "handleUpdate"}) =>
           /\ last.trace # <<>>
           /\ FetchFirst(last.trace)
           /\ ~last.trace[1].ok => Len(last.trace) = 1
           /\ ~AllOk(last.trace) => last.disps = <<NackRequeue>>

C3_Witness ==
    /\ Returned
    /\ last.handler = "handleUpdate"
    /\ Ops(last.trace) = <<"properties.get", "solr.add", "solr.commit">>
    /\ ~last.trace[3].ok
    /\ last.disps = <<NackRequeue>>

\* C4: for delete the canonical store is never called, the first call is
\* the engine's delete; a failed engine call leads to nack with requeue,
\* success to ack.
C4_DeleteWithoutFetch ==
    /\ (Processing /\ DispatchOf(cur.body) = "handleDelete") =>
           (pc # "fetch" /\ ~HasCall(trace, "properties.get"))
    /\ (Returned /\ last.handler = "handleDelete") =>
           /\ ~HasCall(last.trace, "properties.get")
           /\ last.trace # <<>> /\ last.trace[1].op = "solr.delete"
           /\ ~AllOk(last.trace) => last.disps = <<NackRequeue>>
           /\ AllOk(last.trace) => last.disps = <<Ack>>

C4_Witness ==
    /\ Returned
    /\ last.handler = "handleDelete"
    /\ last.trace = <<Call("solr.delete", FALSE)>>
    /\ last.disps = <<NackRequeue>>

\* The canonical fetch of the delivery answered that the listing does not
\* exist (the store holds nothing for the identifier and answered non-200).
FetchNotFound(l) ==
    /\ canonical[l.body.property_id] = Absent
    /\ l.trace = <<Call("properties.get", FALSE)>>
    /\ Contains(l.err, "properties API returned status")

\* The listing fetched for the delivery failed validateProperty.
FetchedInvalid(l) ==
    /\ l.trace = <<Call("properties.get", TRUE)>>
    /\ Contains(l.err, "invalid property")

\* C5: a create/update message whose canonical fetch reports the listing
\* as absent, or whose fetched listing fails listing validation, is not
\* requeued.
C5_NoRequeueOfNotFoundOrInvalid ==
    (/\ Returned
     /\ last.handler \in {"handleCreate", "handleUpdate"}
     /\ FetchNotFound(last) \/ FetchedInvalid(last))
        => NackRequeue \notin {last.disps[i] : i \in 1..Len(last.disps)}

\* C6: no Search is answered from a cache entry that was stored before a
\* write operation of the service that returned success.
C6_NoPreMutationCacheResult ==
    (lastSearch.op = "Search" /\ lastSearch.fromCache) => ~lastSearch.preMutation

\* C7: at most one delivery is unsettled at the consumer, and it is the one
\* processMessage works on; deliveries are processed in the order of their
\* delivery tags, each one starting after the previous one was settled.
C7_OneAtATimeInOrder ==
    /\ Cardinality(unacked) <= 1
    /\ Len(msgs) <= 1
    /\ last.tag \notin unacked
    /\ Processing =>
           /\ msgs = <<>>
           /\ unacked = {cur.tag}
           /\ cur.tag = last.tag + 1
    /\ ~Processing =>
           /\ pc = "idle"
           /\ msgs # <<>> => (Head(msgs).tag = last.tag + 1 /\ unacked = {Head(msgs).tag})

C7_Witness ==
    /\ Processing
    /\ cur.tag = 2
    /\ last.tag = 1
    /\ queue # <<>>

\* C8: when the context deadline has passed by the time the handler
\* returns, whether it passed during the canonical fetch or during the
\* engine requests, the delivery is nacked with requeue and no commit
\* succeeded for it; and the wait of a delivery is bounded (it does not
\* hang).
C8_DeadlineForcesRequeue ==
    /\ (Returned /\ last.handler # "reject" /\ last.at >= last.deadline) =>
           /\ last.disps = <<NackRequeue>>
           /\ ~\E i \in 1..Len(last.trace) : last.trace[i] = Call("solr.commit", TRUE)
    /\ Processing => now < ProcessingTimeout + MaxStartDelay + 2 * TickStep

\* The fetch was answered after the deadline; the engine request that
\* followed failed and the delivery was requeued.
C8_Witness ==
    /\ Returned
    /\ last.handler = "handleCreate"
    /\ last.at >= last.deadline
    /\ last.trace = <<Call("properties.get", TRUE), Call("solr.add", FALSE)>>
    /\ last.disps = <<NackRequeue>>

\* C9: a Search that found its key in the cache returns the cached
\* listings and total and made no call to the engine.
C9_CacheHitSkipsEngine ==
    (lastSearch.op = "Search" /\ lastSearch.fromCache) =>
        /\ lastSearch.err = NoErr
        /\ ~HasCall(lastSearch.trace, "solr.select")
        /\ KeyOf(lastSearch.request) \in DOMAIN localCache =>
               /\ lastSearch.response.Results
                      = localCache[KeyOf(lastSearch.request)].Properties
               /\ lastSearch.response.TotalResults
                      = localCache[KeyOf(lastSearch.request)].Total

\* A hit served from Memcached with a listing in the result.
C9_Witness ==
    /\ lastSearch.op = "Search"
    /\ lastSearch.fromCache
    /\ HasCall(lastSearch.trace, "memcached.get")
    /\ lastSearch.response.TotalResults = 1

\* The request breaks a constraint that default-filling cannot repair: a
\* sort order that is set and neither asc nor desc, a negative price or
\* count, both prices set with min > max, a page size above 100 or
\* negative, a negative page.
ViolatesConstraints(r) ==
    \/ r.SortOrder \notin {"", "asc", "desc"}
    \/ r.MinPrice < 0 \/ r.MaxPrice < 0
    \/ r.Bedrooms < 0 \/ r.Bathrooms < 0 \/ r.MinGuests < 0
    \/ r.MinPrice > 0 /\ r.MaxPrice > 0 /\ r.MinPrice > r.MaxPrice
    \/ r.PageSize > 100 \/ r.PageSize < 0
    \/ r.Page < 0

\* C10: a Search with a request that violates the constraints returns an
\* error and made no cache lookup and no engine query.
C10_InvalidRequestFailsFast ==
    (lastSearch.op = "Search" /\ ViolatesConstraints(lastSearch.request)) =>
        (lastSearch.err # NoErr /\ lastSearch.trace = <<>>)

\* The last call was a Search on the service.
Searched == lastSearch.op = "Search"

\* The response the engine gives the request of the last Search in the
\* current engine state.
EngineAnswer ==
    LET r == ServiceDefaults(lastSearch.request)
    IN  SearchResponse(EngineSelect(r).docs, EngineSelect(r).numFound, r)

\* C11: a Search that met a Memcached failure (an error or an undecodable
\* value on get, an error on set) queried the engine, and when the engine
\* answered, returned the engine's result with no error.
C11_CacheFailureNeverFailsSearch ==
    (Searched /\ lastSearch.faults # {}) =>
        /\ HasCall(lastSearch.trace, "solr.select")
        /\ ~lastSearch.fromCache
        /\ Call("solr.select", TRUE) \in {lastSearch.trace[i] : i \in 1..Len(lastSearch.trace)}
               => (lastSearch.err = NoErr /\ lastSearch.response = EngineAnswer)

\* Memcached failed on get and on set, and the listing of the engine was
\* returned.
C11_Witness ==
    /\ Searched
    /\ lastSearch.faults = {"get_error", "set_error"}
    /\ lastSearch.err = NoErr
    /\ lastSearch.response.TotalResults = 1

C11_WitnessUndecodable ==
    /\ Searched
    /\ "get_undecodable" \in lastSearch.faults
    /\ lastSearch.err = NoErr

CountCalls(tr, op) == Cardinality({i \in 1..Len(tr) : tr[i].op = op})

\* The last Search passed validation and did not find its key in the cache.
SearchMissed == Searched /\ lastSearch.key # "" /\ ~lastSearch.fromCache

\* C12, what the call did: on a miss one select request was sent; when it
\* failed Search returned an error and made no cache write.
C12_MissCalls ==
    SearchMissed =>
        /\ CountCalls(lastSearch.trace, "solr.select") = 1
        /\ lastSearch.err # NoErr <=>
               Call("solr.select", FALSE)
                   \in {lastSearch.trace[i] : i \in 1..Len(lastSearch.trace)}
        /\ lastSearch.err # NoErr =>
               /\ lastSearch.response = NoResponse
               /\ ~HasCall(lastSearch.trace, "local.set")
               /\ ~HasCall(lastSearch.trace, "memcached.set")

\* C12, what the call left: a failed miss left both tiers as they were; a
\* successful one left the result in the cache under the request's key.
C12_MissLeft ==
    SearchMissed =>
        /\ lastSearch.err # NoErr => lastSearch.cacheUntouched
        /\ lastSearch.err = NoErr =>
               (lastSearch.storedLocal /\ HasCall(lastSearch.trace, "local.set"))

\* C12: on a cache miss Search queries the engine once; a failed query is
\* reported once, is not retried and nothing is written to the cache; a
\* successful one is stored under the request's fingerprint before Search
\* returns.
C12_MissQueriesOnce == C12_MissCalls /\ C12_MissLeft

\* A miss whose engine query failed: Memcached, which holds the key, did
\* not answer the get, and its entry is still there.
C12_Witness ==
    /\ SearchMissed
    /\ lastSearch.err # NoErr
    /\ lastSearch.trace[Len(lastSearch.trace)] = Call("solr.select", FALSE)
    /\ lastSearch.key \in DOMAIN memcached

\* A step that is one call on the cache repository.
GetStep == lastSearch' # lastSearch /\ lastSearch'.op = "Get"
SetStep == lastSearch' # lastSearch /\ lastSearch'.op = "Set"
DeleteStep == lastSearch' # lastSearch /\ lastSearch'.op = "Delete"

\* The tiers a call touched.
TiersTouched(tr) ==
    {t \in {"local", "memcached"} :
        \E i \in 1..Len(tr) : SubSeq(tr[i].op, 1, Len(t)) = t}

\* C13: Get looks at the in-process tier first, and when that tier holds
\* the key it returns its entry and makes no call to Memcached.
C13_LocalHitNoNetwork ==
    [][GetStep =>
          /\ lastSearch'.trace[1].op = "local.get"
          /\ lastSearch'.key \in DOMAIN localCache =>
                 /\ lastSearch'.found
                 /\ lastSearch'.properties = localCache[lastSearch'.key].Properties
                 /\ lastSearch'.total = localCache[lastSearch'.key].Total
                 /\ TiersTouched(lastSearch'.trace) = {"local"}
                 /\ UNCHANGED cacheVars]_vars

\* A Get answered by the in-process tier while Memcached no longer holds
\* the key.
C13_Witness ==
    /\ lastSearch.op = "Get"
    /\ lastSearch.found
    /\ lastSearch.trace = <<Call("local.get", TRUE)>>
    /\ lastSearch.key \notin DOMAIN memcached
    /\ lastSearch.total = 1

\* The next Get of the key, whatever Memcached would answer, is answered by
\* the in-process tier alone.
ServedLocally(key) ==
    \A mc \in MemcachedGetOutcomes :
        /\ CacheGet(key, mc).found
        /\ CacheGet(key, mc).calls = <<Call("local.get", TRUE)>>

\* C14: when the in-process tier does not hold the key and Memcached
\* answers the get with its entry, Get returns that entry as found and
\* stores it in the in-process tier with the 5 minute TTL, so that the next
\* Get is served from the in-process tier; when neither tier holds the key
\* Get returns not-found and changes neither tier.
C14_RemoteHitRepopulates ==
    [][(GetStep /\ lastSearch'.key \notin DOMAIN localCache) =>
          /\ (lastSearch'.key \in DOMAIN memcached /\ lastSearch'.faults = {}) =>
                 /\ lastSearch'.found
                 /\ lastSearch'.properties = memcached[lastSearch'.key].Properties
                 /\ lastSearch'.total = memcached[lastSearch'.key].Total
                 /\ DOMAIN localCache' = DOMAIN localCache \cup {lastSearch'.key}
                 /\ localCache'[lastSearch'.key].Properties = lastSearch'.properties
                 /\ localCache'[lastSearch'.key].Total = lastSearch'.total
                 /\ localCache'[lastSearch'.key].ttl = LocalTTL
                 /\ \A k \in DOMAIN localCache : localCache'[k] = localCache[k]
                 /\ \E k \in RepoKeys : k = lastSearch'.key /\ ServedLocally(k)'
                 /\ memcached' = memcached
          /\ lastSearch'.key \notin DOMAIN memcached =>
                 /\ ~lastSearch'.found
                 /\ UNCHANGED cacheVars]_vars

\* A Get answered by Memcached, its entry now in the in-process tier.
C14_Witness ==
    /\ lastSearch.op = "Get"
    /\ lastSearch.found
    /\ Call("memcached.get", TRUE) \in {lastSearch.trace[i] : i \in 1..Len(lastSearch.trace)}
    /\ lastSearch.key \in DOMAIN localCache
    /\ localCache[lastSearch.key].ttl = LocalTTL
    /\ lastSearch.total = 1

\* The entry holds the listings and total of the last call, with the TTL.
HoldsArguments(entry, ttl) ==
    /\ entry.Properties = lastSearch.properties
    /\ entry.Total = lastSearch.total
    /\ entry.ttl = ttl

\* C15: Set writes the in-process tier with the 5 minute TTL and Memcached
\* with the 15 minute TTL, whatever ttl the caller passed; the in-process
\* write takes effect also when the Memcached write fails (Memcached then
\* holds the old entry or the new one), and Set reports no error.
C15_SetFixedTTLs ==
    [][SetStep =>
          /\ lastSearch'.key \in DOMAIN localCache'
          /\ HoldsArguments(localCache[lastSearch.key], LocalTTL)'
          /\ \A k \in DOMAIN localCache' \ {lastSearch'.key} :
                 k \in DOMAIN localCache /\ localCache'[k] = localCache[k]
          /\ lastSearch'.faults = {} =>
                 /\ lastSearch'.key \in DOMAIN memcached'
                 /\ HoldsArguments(memcached[lastSearch.key], MemcachedTTL)'
          /\ \A k \in DOMAIN memcached' :
                 \/ k \in DOMAIN memcached /\ memcached'[k] = memcached[k]
                 \/ k = lastSearch'.key
                      /\ HoldsArguments(memcached[lastSearch.key], MemcachedTTL)'
          /\ DOMAIN memcached \subseteq DOMAIN memcached'
          /\ "err" \notin DOMAIN lastSearch'
          /\ lastSearch'.trace[1] = Call("local.set", TRUE)]_vars

\* A Set with a ttl argument of 20 minutes whose Memcached write failed: the
\* in-process tier holds the new entry with the 5 minute TTL, Memcached does
\* not hold the key.
C15_Witness ==
    /\ lastSearch.op = "Set"
    /\ lastSearch.ttl = 20
    /\ lastSearch.faults = {"set_error"}
    /\ lastSearch.key \in DOMAIN localCache
    /\ localCache[lastSearch.key].ttl = LocalTTL
    /\ localCache[lastSearch.key].Total = 1
    /\ lastSearch.key \notin DOMAIN memcached

\* A Set with a ttl argument of 1 minute written to both tiers.
C15_WitnessBothTiers ==
    /\ lastSearch.op = "Set"
    /\ lastSearch.ttl = 1
    /\ lastSearch.faults = {}
    /\ localCache[lastSearch.key].ttl = LocalTTL
    /\ memcached[lastSearch.key].ttl = MemcachedTTL

\* Neither tier holds the key.
AbsentFromCache(k) == k \notin DOMAIN localCache /\ k \notin DOMAIN memcached

\* A key that neither tier holds stays out of both until a Set of that key,
\* and a Get of it returns not-found.
AbsentUntilSet ==
    \A k \in RepoKeys :
        (AbsentFromCache(k) /\ ~(SetStep /\ lastSearch'.key = k)) =>
            /\ AbsentFromCache(k)'
            /\ (GetStep /\ lastSearch'.key = k) => ~lastSearch'.found

\* C16 as claimed: after Delete returns, neither tier holds the key.
C16_DeleteClearsBothTiers ==
    [][DeleteStep => (\E k \in RepoKeys : k = lastSearch'.key /\ AbsentFromCache(k)')]_vars

\* C16 as amended: Delete removes the key from the in-process tier, and
\* from Memcached whenever Memcached answers the delete (deleted, or not
\* found, which is not an error); Get then returns not-found until the next
\* Set of the key.  When the Memcached delete fails with another error the
\* error is only logged and Memcached may still hold the key.  No other key
\* is touched and Delete reports nothing to its caller.
C16_DeleteClearsAnsweringTiers ==
    [][/\ DeleteStep =>
             /\ lastSearch'.key \notin DOMAIN localCache'
             /\ lastSearch'.faults = {} => lastSearch'.key \notin DOMAIN memcached'
             /\ \A k \in RepoKeys \ {lastSearch'.key} :
                    /\ k \in DOMAIN localCache <=> k \in DOMAIN localCache'
                    /\ k \in DOMAIN memcached <=> k \in DOMAIN memcached'
                    /\ k \in DOMAIN localCache => localCache'[k] = localCache[k]
                    /\ k \in DOMAIN memcached => memcached'[k] = memcached[k]
             /\ "err" \notin DOMAIN lastSearch'
       /\ AbsentUntilSet]_vars

\* A Delete of a key Memcached held and removed; the other key is still
\* cached.
C16_Witness ==
    /\ lastSearch.op = "Delete"
    /\ lastSearch.trace = <<Call("local.delete", TRUE), Call("memcached.delete", TRUE)>>
    /\ AbsentFromCache(lastSearch.key)
    /\ CachedKeys # {}

\* A Delete that Memcached answered with ErrCacheMiss.
C16_WitnessNotFound ==
    /\ lastSearch.op = "Delete"
    /\ lastSearch.faults = {}
    /\ lastSearch.trace[2] = Call("memcached.delete", FALSE)
    /\ AbsentFromCache(lastSearch.key)

\* Default-filling as the claim words it.
DefaultFilled(r) ==
    [r EXCEPT !.Page = IF r.Page < 1 THEN 1 ELSE r.Page,
              !.PageSize = IF r.PageSize < 1 THEN 10 ELSE r.PageSize,
              !.SortBy = IF r.SortBy = "" THEN "price_per_night" ELSE r.SortBy,
              !.SortOrder = IF r.SortOrder = "" THEN "asc" ELSE r.SortOrder]

ExplicitDefaults ==
    [ZeroRequest EXCEPT !.Page = 1, !.PageSize = 10,
                        !.SortBy = "price_per_night", !.SortOrder = "asc"]

\* C17: the key a Search used is the fingerprint of the default-filled
\* request, so every request that is equal to it after default-filling is
\* looked up under the same key.
C17_FingerprintOfDefaulted ==
    (Searched /\ lastSearch.key # "") =>
        /\ lastSearch.key = generateCacheKey(DefaultFilled(lastSearch.request))
        /\ \A r \in Requests :
               DefaultFilled(r) = DefaultFilled(lastSearch.request)
                   => KeyOf(r) = lastSearch.key

\* The request with the defaults written out was answered from the cache,
\* under the key of the request with everything omitted.
C17_Witness ==
    /\ Searched
    /\ lastSearch.request = ExplicitDefaults
    /\ lastSearch.fromCache
    /\ lastSearch.key = KeyOf(ZeroRequest)
    /\ ZeroRequest # ExplicitDefaults

\* The last call was a GET /search whose query string parsed.
Handled ==
    /\ lastSearch.op = "ControllerSearch"
    /\ lastSearch.method = "GET"
    /\ parseSearchRequest(lastSearch.params).err = NoErr

\* The request as the query string gives it, before any default is filled.
AsSent == parseSearchRequest(lastSearch.params).request

\* C18: GET /search answers 400 to a request with a page below 1 and to a
\* request with a page size of 0 or above 100, and does not call the
\* service for it.
C18_PagingBoundsRejected ==
    (/\ Handled
     /\ \/ lastSearch.params.page # "" /\ AsSent.Page < 1
        \/ lastSearch.params.page_size # "" /\ AsSent.PageSize = 0
        \/ lastSearch.params.page_size # "" /\ AsSent.PageSize > 100)
        => (lastSearch.status = 400 /\ ~lastSearch.reached)

\* The request breaks a rule on the sort order, the signs or the price
\* range.
Rejectable(r) ==
    \/ r.SortOrder # "" /\ r.SortOrder \notin {"asc", "desc"}
    \/ r.MinPrice < 0 \/ r.MaxPrice < 0
    \/ r.Bedrooms < 0 \/ r.Bathrooms < 0 \/ r.MinGuests < 0
    \/ r.MinPrice > 0 /\ r.MaxPrice > 0 /\ r.MinPrice > r.MaxPrice

\* Both prices are set, in order, and nothing else is wrong.
GoodRange(r) ==
    /\ r.MinPrice > 0 /\ r.MaxPrice > 0 /\ r.MinPrice <= r.MaxPrice
    /\ ~Rejectable(r)
    /\ r.Page >= 0 /\ r.PageSize >= 0 /\ r.PageSize <= 100

\* C19: a request with a sort order that is present and neither asc nor
\* desc, with a negative price or count, or with both prices set and min
\* above max is rejected, by the controller (400, the service is not called)
\* and by the service (an error before any cache or engine call); a request
\* with both prices set and min <= max is accepted by both.
C19_ValidationRules ==
    /\ Handled =>
          /\ Rejectable(AsSent) => (lastSearch.status = 400 /\ ~lastSearch.reached)
          /\ GoodRange(AsSent) =>
                 /\ lastSearch.reached
                 /\ lastSearch.status \in {200, 500}
                 /\ lastSearch.status = 200 <=> lastSearch.err = NoErr
                 /\ lastSearch.err # "invalid request"
    /\ Searched =>
          /\ Rejectable(lastSearch.request) =>
                 (lastSearch.err = "invalid request" /\ lastSearch.trace = <<>>)
          /\ GoodRange(lastSearch.request) => lastSearch.err # "invalid request"

\* min_price=10&max_price=5 answered with 400.
C19_Witness ==
    /\ Handled
    /\ AsSent.MinPrice = 10000 /\ AsSent.MaxPrice = 5000
    /\ lastSearch.status = 400
    /\ ~lastSearch.reached

\* min_price=5&max_price=10 answered with 200.
C19_WitnessAccepted ==
    /\ Handled
    /\ AsSent.MinPrice = 5000 /\ AsSent.MaxPrice = 10000
    /\ lastSearch.status = 200
    /\ lastSearch.response.TotalResults = 0

\* The service called with min 5, max 10 and with a refused request.
C19_WitnessService ==
    /\ Searched
    /\ GoodRange(lastSearch.request)
    /\ lastSearch.err = NoErr

\* pages = ceil(total / size), for total >= 0 and size >= 1.
IsCeiling(pages, total, size) ==
    /\ pages >= 0
    /\ pages * size >= total
    /\ (pages - 1) * size < total

\* C20: a successful Search response, from the cache or from the engine,
\* echoes the defaulted page and page size, and its total_pages is
\* ceil(total_results / page_size): 0 pages for 0 results.
C20_PaginationArithmetic ==
    (lastSearch.op \in {"Search", "SearchResponse"} /\ lastSearch.err = NoErr) =>
        /\ lastSearch.response.Page = DefaultFilled(lastSearch.request).Page
        /\ lastSearch.response.PageSize = DefaultFilled(lastSearch.request).PageSize
        /\ lastSearch.response.PageSize >= 1
        /\ lastSearch.response.TotalResults >= 0
        /\ IsCeiling(lastSearch.response.TotalPages, lastSearch.response.TotalResults,
                     lastSearch.response.PageSize)
        /\ lastSearch.response.TotalResults = 0 => lastSearch.response.TotalPages = 0

\* Eleven results in pages of five: three pages.
C20_Witness ==
    /\ lastSearch.op = "SearchResponse"
    /\ lastSearch.response.TotalResults = 11
    /\ lastSearch.response.PageSize = 5
    /\ lastSearch.response.TotalPages = 3

\* A total that is a multiple of the page size, and no result at all.
C20_WitnessExact ==
    /\ lastSearch.op = "SearchResponse"
    /\ lastSearch.response.TotalResults = 12
    /\ lastSearch.response.PageSize = 4
    /\ lastSearch.response.TotalPages = 3

C20_WitnessFromCache ==
    /\ Searched
    /\ lastSearch.fromCache
    /\ lastSearch.request = ZeroRequest
    /\ lastSearch.response.Page = 1
    /\ lastSearch.response.PageSize = 10
    /\ lastSearch.response.TotalPages = 1

C20_WitnessFromEngine ==
    /\ Searched
    /\ ~lastSearch.fromCache
    /\ lastSearch.err = NoErr
    /\ lastSearch.response.TotalResults = 0
    /\ lastSearch.response.TotalPages = 0

\* A step in which a create or update handler's engine mutation succeeds.
Applied ==
    /\ pc = "mutate"
    /\ pmsg.Action \in {"create", "update"}
    /\ pc' = "result"
    /\ err' = NoErr

\* C21: applying a create or update event again while the canonical listing
\* is the one the engine already holds from an earlier application leaves
\* the engine with that one document for the identifier, unchanged: no
\* second document, no drift.
C21_ReplayIdempotent ==
    [][(Applied /\ solrIndex[pmsg.PropertyID] = prop)
         => /\ solrIndex' = solrIndex
            /\ solrDocs'[pmsg.PropertyID] = prop
            /\ DOMAIN solrIndex' = PropertyIDs]_vars

\* The same message was applied and acknowledged, and is applied a second
\* time with the same canonical listing.
C21_Witness ==
    /\ pc = "result"
    /\ err = NoErr
    /\ pmsg.Action \in {"create", "update"}
    /\ last.disps = <<Ack>>
    /\ last.body = cur.body
    /\ AllOk(last.trace)
    /\ AllOk(trace)
    /\ HasCall(trace, "solr.commit")
    /\ solrIndex[pmsg.PropertyID] = canonical[pmsg.PropertyID]

\* Every published event has been settled for good: nothing is queued,
\* delivered or in processing.  (The events of Publish name a listing and a
\* handled action, which processMessage never rejects without requeue, so
\* an event that left the queue for good was acknowledged.)
AllAcknowledged ==
    /\ published # <<>>
    /\ queue = <<>>
    /\ msgs = <<>>
    /\ unacked = {}
    /\ pc = "idle"

OnlyUpserts(id) ==
    \A i \in 1..Len(published) :
        published[i].property_id = id => published[i].action \in {"create", "update"}

\* C22: once every published change event has been acknowledged, the
\* committed engine document of every listing whose events were creates and
\* updates is the listing's current canonical state, however the deliveries
\* failed and were redelivered on the way.
C22_ConvergesToCanonical ==
    AllAcknowledged =>
        \A id \in PropertyIDs :
            (OnlyUpserts(id) /\ \E i \in 1..Len(published) : published[i].property_id = id)
                => solrIndex[id] = canonical[id]

\* A create and an update were published and acknowledged, the listing
\* changed in between, and a delivery was requeued on the way.
C22_Witness ==
    /\ AllAcknowledged
    /\ Len(published) >= 2
    /\ OnlyUpserts("p1")
    /\ canonical["p1"] = LoftV2
    /\ solrIndex["p1"] = LoftV2
    /\ nextTag > Len(published) + 1

\* A listing the engine may be called for.
WellFormedListing(l) ==
    /\ l.id # "" /\ l.title # "" /\ l.city # "" /\ l.country # ""
    /\ l.price_per_night >= 0 /\ l.bedrooms >= 0
    /\ l.bathrooms >= 0 /\ l.max_guests >= 0

\* The last call was refused by validation: an error, no outbound call,
\* engine and cache as they were.
RefusedUntouched ==
    /\ lastSearch.err # NoErr
    /\ lastSearch.trace = <<>>
    /\ lastSearch.untouched

\* C23: IndexProperty and UpdateProperty call the engine only for a listing
\* with non-empty id, title, city and country and non-negative price,
\* bedrooms, bathrooms and max guests, DeleteProperty only for a non-empty
\* id; a call that fails validation returns an error and leaves the engine
\* and the cache untouched.
C23_WritesValidated ==
    /\ lastSearch.op \in {"IndexProperty", "UpdateProperty"} =>
         IF WellFormedListing(lastSearch.arg)
         THEN HasCall(lastSearch.trace, "solr.add")
         ELSE RefusedUntouched
    /\ lastSearch.op = "DeleteProperty" =>
         IF lastSearch.arg # ""
         THEN HasCall(lastSearch.trace, "solr.delete")
         ELSE RefusedUntouched

\* An update with negative max guests was refused while the engine and the
\* cache held data.
C23_Witness ==
    /\ lastSearch.op = "UpdateProperty"
    /\ lastSearch.arg.max_guests < 0
    /\ RefusedUntouched
    /\ solrIndex["p1"] # NoDoc
    /\ localCache # EmptyCache

\* A delete without an id was refused.
C23_WitnessDelete ==
    /\ lastSearch.op = "DeleteProperty"
    /\ lastSearch.arg = ""
    /\ RefusedUntouched

WriteOps == {"IndexProperty", "UpdateProperty", "DeleteProperty"}

\* The engine request a write operation sends first.
MutationOf(op) == IF op = "DeleteProperty" THEN "solr.delete" ELSE "solr.add"

\* C24: a write operation sends its mutation request (the whole document
\* for create and update, the id for delete) and then a commit; the commit
\* is sent exactly when the mutation request succeeded, and the operation
\* reports success only when the commit succeeded too, the mutation then
\* being visible.
C24_MutationThenCommit ==
    lastSearch.op \in WriteOps /\ lastSearch.trace # <<>> =>
        LET tr == lastSearch.trace
        IN  /\ tr[1].op = MutationOf(lastSearch.op)
            /\ HasCall(tr, "solr.commit") <=> lastSearch.post = "ok"
            /\ HasCall(tr, "solr.commit") =>
                   Ops(tr) = <<MutationOf(lastSearch.op), "solr.commit">>
            /\ ~HasCall(tr, "solr.commit") => Len(tr) = 1
            /\ lastSearch.err = NoErr <=>
                   (lastSearch.post = "ok" /\ lastSearch.commitOutcome = "ok")
            /\ lastSearch.err = NoErr =>
                   IF lastSearch.op = "DeleteProperty"
                   THEN solrIndex[lastSearch.arg] = NoDoc
                   ELSE solrIndex[lastSearch.arg.id] = lastSearch.arg

\* A delete whose request succeeded and whose commit failed returned an
\* error.
C24_Witness ==
    /\ lastSearch.op = "DeleteProperty"
    /\ lastSearch.post = "ok"
    /\ lastSearch.commitOutcome = "http_status"
    /\ lastSearch.err # NoErr
    /\ Ops(lastSearch.trace) = <<"solr.delete", "solr.commit">>

\* An update the engine refused in its answer (status not 0) sent no commit.
C24_WitnessNoCommit ==
    /\ lastSearch.op = "UpdateProperty"
    /\ lastSearch.post = "solr_status"
    /\ Ops(lastSearch.trace) = <<"solr.add">>
    /\ lastSearch.err # NoErr

\* An update replaced the committed document.
C24_WitnessCommitted ==
    /\ lastSearch.op = "UpdateProperty"
    /\ lastSearch.err = NoErr
    /\ solrIndex["p1"] = lastSearch.arg

CloseReturned == proc.main \in {"closed", "exited"}
Elems(q) == {q[i] : i \in 1..Len(q)}

\* C25: Close attempts to close the channel and then the connection in
\* every case, a failure of the first not keeping it from the second; it
\* returns nil when both succeeded and otherwise one error that carries the
\* error of every close that failed.
C25_CloseReleasesBoth ==
    CloseReturned =>
        /\ Ops(proc.closeCalls) = <<"channel.Close", "connection.Close">>
        /\ proc.closeErr = NoErr <=> AllOk(proc.closeCalls)
        /\ ~proc.closeCalls[1].ok <=> "error closing channel" \in Elems(proc.closeErrs)
        /\ ~proc.closeCalls[2].ok <=> "error closing connection" \in Elems(proc.closeErrs)
        /\ \A e \in Elems(proc.closeErrs) : Contains(proc.closeErr, e)

\* Closing the channel failed, the connection was closed all the same, and
\* Close returned the channel's error.
C25_Witness ==
    /\ proc.main = "closed"
    /\ proc.closeCalls = <<Call("channel.Close", FALSE), Call("connection.Close", TRUE)>>
    /\ proc.closeErr = "errors closing RabbitMQ consumer: [error closing channel]"
    /\ proc.connection = "closed"

\* Both closes failed and the error returned carries both.
C25_WitnessBothFail ==
    /\ proc.main = "closed"
    /\ ~proc.closeCalls[1].ok /\ ~proc.closeCalls[2].ok
    /\ Len(proc.closeErrs) = 2
    /\ Contains(proc.closeErr, "error closing channel")
    /\ Contains(proc.closeErr, "error closing connection")

\* Both closes succeeded and Close returned nil.
C25_WitnessNil ==
    /\ proc.main = "closed"
    /\ AllOk(proc.closeCalls)
    /\ proc.closeErr = NoErr

Released == proc.channel = "closed" \/ proc.connection = "closed"

\* C26: at shutdown the channel and the connection are released only once
\* the HTTP server has stopped accepting requests and the message in
\* processing, if any, has finished; and a message is never acknowledged
\* without its mutation applied.
C26_ReleaseAfterWorkDone ==
    [][/\ (~Released /\ Released') =>
            /\ proc.http = "stopped"
            /\ pc = "idle"
       /\ last'.disps = <<Ack>> => HandlerSucceeded(last')]_vars

\* The numeric parameters of the query string, and the values sent for
\* them that are no number of the parameter's type.
NumericParams == {"min_price", "max_price", "bedrooms", "bathrooms",
                  "min_guests", "page", "page_size"}
NotNumeric(params) ==
    \/ \E f \in NumericParams : params[f] \in {"abc", "ten"}
    \/ \E f \in NumericParams \ {"min_price", "max_price"} : params[f] = "2.5"

\* The request as sent fails a check of the controller.
FailsValidation(r) == Rejectable(r) \/ r.PageSize > 100

Routed == lastSearch.op = "ControllerSearch"

\* C27: the /search route answers OPTIONS with 204 without calling the
\* handler, another method than GET with 405, a value that is no number
\* for a numeric parameter and a request that fails validation with 400 and
\* an {error, code} body without calling the service, an error of the
\* service with 500, and everything else with 200 and the result.
C27_StatusCodes ==
    Routed =>
        LET l == lastSearch
        IN  IF l.method = "OPTIONS"
            THEN l.status = 204 /\ ~l.handler /\ ~l.reached /\ l.body = NoBody
            ELSE IF l.method # "GET"
            THEN l.status = 405 /\ ~l.reached /\ l.body.code = 405
            ELSE IF NotNumeric(l.params) \/ FailsValidation(AsSent)
            THEN /\ l.status = 400
                 /\ ~l.reached
                 /\ DOMAIN l.body = {"error", "code"}
                 /\ l.body.code = 400
                 /\ l.body.error # ""
            ELSE /\ l.handler /\ l.reached
                 /\ IF l.err # NoErr
                    THEN l.status = 500 /\ l.body.code = 500
                    ELSE l.status = 200 /\ l.body = l.response
                                        /\ l.response # NoResponse

\* bedrooms=2.5 was answered with 400 and an error body.
C27_Witness ==
    /\ Routed
    /\ lastSearch.method = "GET"
    /\ lastSearch.params.bedrooms = "2.5"
    /\ lastSearch.status = 400
    /\ lastSearch.body.code = 400

\* A preflight request was answered with 204.
C27_WitnessPreflight ==
    /\ Routed
    /\ lastSearch.method = "OPTIONS"
    /\ lastSearch.status = 204

\* An engine failure was answered with 500, a POST with 405.
C27_WitnessServiceError ==
    /\ Routed
    /\ lastSearch.status = 500
    /\ lastSearch.err # NoErr
    /\ HasCall(lastSearch.trace, "solr.select")
C27_WitnessMethod ==
    /\ Routed
    /\ lastSearch.method = "POST"
    /\ lastSearch.status = 405

\* The characters with a meaning in the engine's query syntax
\* (+ - && || ! ( ) { } [ ] ^ " ~ * ? : / and the escape character itself).
EngineReserved == {"\\", "+", "-", "&", "|", "!", "(", ")", "{", "}", "[", "]",
                   "^", "\"", "~", "*", "?", ":", "/"}

\* text with one backslash before each of its characters that is in chars.
RECURSIVE EscapedOnce(_, _)
EscapedOnce(text, chars) ==
    IF text = "" THEN ""
    ELSE (IF SubSeq(text, 1, 1) \in chars THEN "\\" ELSE "")
         \o SubSeq(text, 1, 1) \o EscapedOnce(SubSeq(text, 2, Len(text)), chars)

\* The query and filters built hold the user text in the form e.
BuiltWith(e) ==
    IF lastSearch.op = "BuildQuery"
    THEN lastSearch.q = "(title:*" \o e \o "* OR city:*" \o e
                        \o "* OR country:*" \o e \o "*)"
    ELSE \E field \in {"city", "country"} :
            lastSearch.fq = <<field \o ":\"" \o e \o "\"">>

\* C28: the text inserted into the engine query for a free-text query and
\* for a city or country filter is the user's text with every character the
\* engine reserves preceded by one backslash, each escaped exactly once.
C28_ReservedEscapedOnce ==
    lastSearch.op \in {"BuildQuery", "BuildFilter"} =>
        /\ lastSearch.escaped = EscapedOnce(lastSearch.text, EngineReserved)
        /\ BuiltWith(EscapedOnce(lastSearch.text, EngineReserved))

\* Users table: no two rows share a username and no two share an email.
UniqueUsers ==
    \A i, j \in DOMAIN users :
        i # j => /\ users[i].username # users[j].username
                 /\ users[i].email # users[j].email

\* The last call was a CreateUser refused with e: nil user, nothing stored.
RefusedWith(e) ==
    /\ lastCall.err = e
    /\ lastCall.user = NoUser
    /\ ~lastCall.stored

\* C29: after any sequence of CreateUser, UpdateUser and DeleteUser calls no
\* two stored users share a username and no two share an email; a CreateUser
\* whose username is in use fails with 'username already exists' whatever
\* its email is, one whose email alone is in use fails with 'email already
\* exists', and both store nothing and return a nil user.
C29_NoSharedIdentity ==
    /\ UniqueUsers
    /\ lastCall.op = "CreateUser" =>
          /\ lastCall.usernameInUse => RefusedWith("username already exists")
          /\ (~lastCall.usernameInUse /\ lastCall.emailInUse)
                => RefusedWith("email already exists")

\* A step from a successful CreateUser to a Login with the created user's
\* password and either its username or its email, the store answering.
LoginOfCreated ==
    /\ lastCall.op = "CreateUser"
    /\ lastCall.err = NoErr
    /\ lastCall'.op = "Login"
    /\ lastCall'.lookup = "ok"
    /\ lastCall'.req.password = lastCall.req.password
    /\ lastCall'.req.username_or_email
          \in {lastCall.req.username, lastCall.req.email}

\* C30: a user CreateUser has just created with username u, email e and
\* password p logs in with (u, p) and with (e, p): Login succeeds and
\* returns a non-empty token together with that user.
C30_CreatedCanLogin ==
    [][LoginOfCreated =>
          /\ lastCall'.err = NoErr
          /\ lastCall'.response.token # ""
          /\ lastCall'.response.user = lastCall.user]_vars

\* The rows the identifier of the last Login names, by username or by email.
AccountsNamed ==
    {i \in DOMAIN users :
        lastCall.req.username_or_email \in {users[i].username, users[i].email}}

LoginRefused ==
    /\ lastCall.response = NoLoginResponse
    /\ lastCall.err = "invalid credentials"

\* C31: a Login naming no account and a Login naming an account with a
\* password that is not the account's return the same thing: no response
\* and the error 'invalid credentials'.
C31_LoginRevealsNothing ==
    lastCall.op = "Login" =>
        /\ AccountsNamed = {} => LoginRefused
        /\ (/\ AccountsNamed # {}
            /\ \A i \in AccountsNamed :
                  ~CheckPasswordHash(lastCall.req.password, users[i].password))
              => LoginRefused

\* A Login with a wrong password for a stored account, the store answering.
C31_Witness ==
    /\ lastCall.op = "Login"
    /\ lastCall.lookup = "ok"
    /\ \E i \in AccountsNamed :
          /\ lastCall.req.username_or_email = users[i].username
          /\ ~Contains(users[i].username, "@")
          /\ ~CheckPasswordHash(lastCall.req.password, users[i].password)
    /\ LoginRefused

\* A Login naming nobody while accounts are stored.
C31_WitnessUnknown ==
    /\ lastCall.op = "Login"
    /\ lastCall.lookup = "ok"
    /\ users # <<>>
    /\ AccountsNamed = {}
    /\ LoginRefused

\* The tokens the service signed that have not expired, by the user type
\* they carry.
LiveTokens(userTypes) ==
    {SignedString(id, username, userType, "live", JWTSecret) :
        id \in 1..2, username \in {"ann", "bob", "bob@x.io"},
        userType \in userTypes}

BearerOf(tokens) == {"Bearer " \o t : t \in tokens}

C32_WitnessAdmin ==
    /\ lastCall.op = "admin"
    /\ lastCall.method = "DELETE"
    /\ lastCall.header = "Bearer " \o AdminToken
    /\ lastCall.handler
    /\ lastCall.status = 200
    /\ 2 \notin DOMAIN users

\* An expired administrator token is answered 401.
C32_WitnessExpired ==
    /\ lastCall.op = "admin"
    /\ lastCall.header
          = "Bearer " \o SignedString(1, "ann", "admin", "expired", JWTSecret)
    /\ lastCall.method = "GET"
    /\ lastCall.status = 401

\* Every published event was acknowledged: none queued, none delivered and
\* unsettled, no instance at work.  (The events are updates of a stored
\* listing, which processMessage settles with an ack or a requeue.)
RaceAtRest ==
    /\ published # <<>>
    /\ queue = <<>>
    /\ unacked = {}
    /\ \A i \in Instances : Instance(i).pc = "idle"

\* Two committed writes whose order is the reverse of their fetches'.
AppliedOutOfOrder ==
    \E a, b \in 1..Len(tasks.applied) :
        a < b /\ tasks.applied[a] > tasks.applied[b]

OlderVersions(id) ==
    {tasks.history[k] : k \in 1..(Len(tasks.history) - 1)}

\* C33: with two consumer instances on the queue there is an execution
\* (the state C33_Witness, which is reached) in which the update events
\* of one listing are all acknowledged, none is pending, and the engine
\* holds an older canonical version of the listing than the latest; the
\* engine at rest is behind the canonical store in this way only: it
\* holds an older canonical version and two writes were applied in the
\* reverse order of their fetches.
C33_StaleByReordering ==
    RaceAtRest =>
        \A id \in PropertyIDs :
            solrIndex[id] # canonical[id] =>
                /\ solrIndex[id] \in OlderVersions(id)
                /\ AppliedOutOfOrder

\* Two updates published, both acknowledged at their first delivery,
\* nothing pending, and the engine holds the first update's version while
\* the canonical store holds the second's.
C33_Witness ==
    /\ RaceAtRest
    /\ Len(published) = 2
    /\ nextTag = 3
    /\ canonical["p1"] = LoftV1
    /\ solrIndex["p1"] = LoftV2
    /\ tasks.history = <<LoftV1, LoftV2, LoftV1>>
    /\ AppliedOutOfOrder

TiersAtRest == \A t \in RequestTasks : Task(t).pc = "idle"

\* C34: once a Delete of the key has returned, with only Gets running beside
\* it and no Set, every Get that starts afterwards returns not-found.
C34_DeleteSticks ==
    (tasks.last.op = "get" /\ tasks.last.afterDelete) => ~tasks.last.found

\* C35: with no call in flight, a key held unexpired by both tiers has the
\* same value in both.
C35_TiersAgree ==
    (/\ TiersAtRest
     /\ Holds(localCache, TierKey)
     /\ Holds(memcached, TierKey)) =>
        localCache[TierKey].value = memcached[TierKey].value

\* C36: a Get never returns a value later than MemcachedTTL minutes after
\* the last Set that wrote it.
C36_StalenessBounded ==
    tasks.last.op = "get" => ~tasks.last.late

\* C37: two validated, defaulted requests whose select requests differ (q,
\* fq, start, rows or sort) never have the same cache key.
C37_KeysSeparate ==
    (/\ lastSearch.op = "Fingerprint"
     /\ lastSearch.selects[1] # lastSearch.selects[2]) =>
        lastSearch.keys[1] # lastSearch.keys[2]

\* C38: a request the controller passes to the service (after applyDefaults
\* and its validateSearchRequest) passes the service's validateSearchRequest
\* and is left as it is by it, so the service never answers it with
\* "invalid request" and a 500 is the failure of a later step.
C38_ControllerAtLeastAsStrict ==
    (Handled /\ lastSearch.reached) =>
       /\ lastSearch.request = applyDefaults(AsSent)
       /\ validateSearchRequest(lastSearch.request).err = NoErr
       /\ validateSearchRequest(lastSearch.request).request = lastSearch.request
       /\ lastSearch.err # "invalid request"
       /\ lastSearch.status = 500 => lastSearch.err \notin {NoErr, "invalid request"}

\* page=-1 is defaulted by the controller, passed on and answered with 200.
C38_Witness ==
    /\ Handled
    /\ lastSearch.reached
    /\ AsSent.Page = -1
    /\ lastSearch.request.Page = 1
    /\ lastSearch.status = 200

\* A request the controller passed on answered with 500.
C38_Witness500 ==
    /\ Handled
    /\ lastSearch.reached
    /\ lastSearch.status = 500
    /\ lastSearch.err # NoErr

\* The message is waiting in the queue.
Queued(body) == \E i \in 1..Len(queue) : queue[i] = body

\* A delivery of the message was acknowledged.
Acknowledged(body) ==
    /\ last.tag # 0
    /\ last.body = body
    /\ last.disps = <<Ack>>

\* Every well-formed message with a recognized action that is in the queue
\* is eventually acknowledged.
EventuallyAcknowledged ==
    \A body \in {b \in Bodies : WellFormedMessage(b)} :
        Queued(body) ~> Acknowledged(body)

\* processMessage returns for every delivery, having sent one disposition.
ProcessingTerminates ==
    \A t \in 1..MaxDeliveries :
        (cur.tag = t /\ pc # "idle") ~>
            (pc = "idle" /\ last.tag = t /\ Len(last.disps) = 1)

\* C39: with a broker that keeps redelivering and collaborators that answer
\* successfully from some point on, every well-formed message with a
\* recognized action in the queue is eventually acknowledged, and the
\* processing of every delivery ends with a disposition.
C39_EventuallyAcked ==
    /\ EventuallyAcknowledged
    /\ ProcessingTerminates


\* The two calls name the same username or the same email.
SameIdentity ==
    \/ Signup("t1").req.username = Signup("t2").req.username
    \/ Signup("t1").req.email = Signup("t2").req.email

BothReturned == Signup("t1").pc = "done" /\ Signup("t2").pc = "done"

\* C40: of two concurrent CreateUser calls with the same username or the
\* same email at most one succeeds, and no two stored users ever share a
\* username or an email.
C40_UniqueUnderConcurrency ==
    /\ \A i, j \in DOMAIN users :
          i # j => /\ users[i].username # users[j].username
                   /\ users[i].email # users[j].email
    /\ (BothReturned /\ SameIdentity) =>
          /\ ~(Signup("t1").err = NoErr /\ Signup("t2").err = NoErr)
          /\ Cardinality(DOMAIN users) <= 1

\* Both calls passed both lookups before either wrote; the table accepted
\* one row and refused the other.
C40_Witness ==
    /\ BothReturned
    /\ SameIdentity
    /\ Signup("t1").err = NoErr
    /\ Signup("t2").err = DuplicateEntry
    /\ Cardinality(DOMAIN users) = 1

====
